---- MODULE Spec2Model ----
(***************************************************************************)
(* handahl/encryptio: deterministic secret derivation from a hardware key. *)
(*                                                                         *)
(* The repository holds two applications over the same idea:               *)
(*   - the Vue/Pinia password toolkit (stores passwords and webauthn,      *)
(*     component PasswordGenerator.vue), and                               *)
(*   - the Svelte codename generator (authStore, Generator.svelte,         *)
(*     crypto.service, webauthn.service, db.service).                      *)
(*                                                                         *)
(* Strings are sequences of character codes, byte arrays are sequences of  *)
(* numbers in 0..255.  JavaScript's 0-based indices are written i+1.       *)
(***************************************************************************)
EXTENDS Integers, Sequences, FiniteSets, TLC

\* ------------------------------------------------------------------ bounds

\* Longest service input drawn for the pure-function specification SpecFn.
MaxServiceLen == 3
\* Versions drawn are 1..MaxVersion.
MaxVersion == 2
\* generate calls started in one behaviour; calls[c] is the c-th of them.
MaxCalls == 2
MaxRegs == 2
MaxOps == 2

\* --------------------------------------------------------------- constants

\* `for (let i = 0; i < 20; i++)`
PasswordLength == 20
\* Bytes of one SHA-256 block (mainHash.length).
HashLen == 32

Null == "null"

Range(s) == {s[i] : i \in DOMAIN s}

\* ------------------------------------------------------------------ state

VARIABLES
    app,                \* which application the page runs: "vue" or "svelte"
    webauthnSupported,  \* window.PublicKeyCredential and navigator.credentials
    credentials,        \* webauthn store: credentials (Vue)
    passwords,          \* passwords store: passwords (Vue)
    pwStorage,          \* localStorage item 'yubikey-passwords'
    isGenerating,       \* passwords store: isGenerating
    pwLastError,        \* passwords store: lastError
    waLastError,        \* webauthn store: lastError
    auth,               \* authStore state (Svelte)
    db,                 \* IndexedDB object store 'app-settings' (Svelte)
    initPc,             \* initializeAuth(): "pending" or "done"
    calls,              \* the generate calls: in flight, or finished and kept
    started,            \* generate calls started so far
    isRegistering,      \* webauthn store: isRegistering
    credStorage,        \* localStorage item 'yubikey-credentials'
    regs,               \* the registerCredential calls, as `calls`
    ops,                \* authStore: setCredentialId, setUsername, clearAuth calls
    register,           \* Auth.svelte: handleRegister
    fn                  \* inputs and outputs of the pure-function specification

\* ----------------------------------------------------- strings and bytes

\* String.prototype.split(sep): the segments between the separators; a
\* string without separator is its own single segment.
RECURSIVE SplitAcc(_, _, _, _)
SplitAcc(s, sep, i, cur) ==
    IF i > Len(s) THEN <<cur>>
    ELSE IF s[i] = sep THEN <<cur>> \o SplitAcc(s, sep, i + 1, <<>>)
    ELSE SplitAcc(s, sep, i + 1, Append(cur, s[i]))

split(s, sep) == SplitAcc(s, sep, 1, <<>>)

\* String.prototype.trim(): leading and trailing blanks (code 32) removed.
RECURSIVE TrimLeft(_)
TrimLeft(s) == IF s # <<>> /\ Head(s) = 32 THEN TrimLeft(Tail(s)) ELSE s

RECURSIVE TrimRight(_)
TrimRight(s) ==
    IF s # <<>> /\ s[Len(s)] = 32 THEN TrimRight(SubSeq(s, 1, Len(s) - 1)) ELSE s

trim(s) == TrimRight(TrimLeft(s))

\* TextEncoder.encode: the string (UTF-16 code units) is read as scalar
\* values, a surrogate without its partner becoming U+FFFD, and each scalar
\* value is written in UTF-8.
IsHighSurrogate(c) == c >= 55296 /\ c <= 56319
IsLowSurrogate(c) == c >= 56320 /\ c <= 57343

Utf8(cp) ==
    IF cp < 128 THEN <<cp>>
    ELSE IF cp < 2048 THEN <<192 + (cp \div 64), 128 + (cp % 64)>>
    ELSE IF cp < 65536
    THEN <<224 + (cp \div 4096), 128 + ((cp \div 64) % 64), 128 + (cp % 64)>>
    ELSE <<240 + (cp \div 262144), 128 + ((cp \div 4096) % 64),
           128 + ((cp \div 64) % 64), 128 + (cp % 64)>>

RECURSIVE TextEncodeFrom(_, _)
TextEncodeFrom(s, i) ==
    IF i > Len(s) THEN <<>>
    ELSE IF IsHighSurrogate(s[i]) /\ i < Len(s) /\ IsLowSurrogate(s[i + 1])
    THEN Utf8(65536 + (s[i] - 55296) * 1024 + (s[i + 1] - 56320))
            \o TextEncodeFrom(s, i + 2)
    ELSE IF IsHighSurrogate(s[i]) \/ IsLowSurrogate(s[i])
    THEN Utf8(65533) \o TextEncodeFrom(s, i + 1)
    ELSE Utf8(s[i]) \o TextEncodeFrom(s, i + 1)

TextEncode(s) == TextEncodeFrom(s, 1)

\* Number to decimal string, as in the template literal `v${version}`.
RECURSIVE DecimalString(_)
DecimalString(n) ==
    IF n < 10 THEN <<48 + n>> ELSE DecimalString(n \div 10) \o <<48 + (n % 10)>>

\* `v${version}`
VersionTag(version) == <<118>> \o DecimalString(version)

\* --------------------------------------------------------------- digests

\* Stand-in for crypto.subtle.digest('SHA-256', data): a deterministic
\* fingerprint of the bytes (two polynomial residues of the byte string),
\* expanded to HashLen bytes over the whole range 0..255.  It separates the
\* inputs the specifications draw (DigestCollisionFree states it); nothing
\* else of SHA-256 is assumed.
RECURSIVE PowMod(_, _, _)
PowMod(b, e, m) ==
    IF e = 0 THEN 1
    ELSE LET half == PowMod(b, e \div 2, m)
             square == (half * half) % m
         IN  IF e % 2 = 0 THEN square ELSE (square * b) % m

\* The residue mod m of the bytes lo..hi read as digits (byte + 1) in base b.
RECURSIVE Residue(_, _, _, _, _)
Residue(data, lo, hi, b, m) ==
    IF lo > hi THEN 0
    ELSE IF lo = hi THEN (data[lo] + 1) % m
    ELSE LET mid == (lo + hi) \div 2
         IN  (Residue(data, lo, mid, b, m) * PowMod(b, hi - mid, m)
                + Residue(data, mid + 1, hi, b, m)) % m

SHA256(data) ==
    LET h1 == Residue(data, 1, Len(data), 257, 46337)
        h2 == (Residue(data, 1, Len(data), 263, 46327) + Len(data)) % 46327
    IN  [i \in 1..HashLen |->
            (h1 * (2 * i + 1) + (h1 \div 256) * i
                + h2 * (i + 3) + (h2 \div 256) * (i * i + 1)) % 256]

\* ------------------------------------------------ passwords store (pure)

\* const allowedChars = 'ABC...XYZabc...xyz0123456789!@#$%^&*()_+=-[]{}|;:,.<>?'
allowedChars ==
    <<65, 66, 67, 68, 69, 70, 71, 72, 73, 74, 75, 76, 77, 78, 79, 80, 81, 82,
      83, 84, 85, 86, 87, 88, 89, 90, 97, 98, 99, 100, 101, 102, 103, 104, 105,
      106, 107, 108, 109, 110, 111, 112, 113, 114, 115, 116, 117, 118, 119,
      120, 121, 122, 48, 49, 50, 51, 52, 53, 54, 55, 56, 57, 33, 64, 35, 36,
      37, 94, 38, 42, 40, 41, 95, 43, 61, 45, 91, 93, 123, 125, 124, 59, 58,
      44, 46, 60, 62, 63>>

\* parts.length > 1 ? parts[parts.length - 2] : fullServiceName
MutantLabelLastSegment(fullServiceName) ==
    LET parts == split(fullServiceName, 46)
    IN  IF Len(parts) > 1 THEN parts[Len(parts)] ELSE fullServiceName

CanonicalLabel(fullServiceName) ==
    LET parts == split(fullServiceName, 46)
    IN  IF Len(parts) > 1 THEN parts[Len(parts) - 1] ELSE fullServiceName

\* seedData = entropy || TextEncoder(serviceName) || TextEncoder(`v${version}`)
SeedData(entropy, fullServiceName, version) ==
    entropy \o TextEncode(CanonicalLabel(fullServiceName))
            \o TextEncode(VersionTag(version))

\* charIndex = mainHash[hashIndex] % allowedChars.length
MutantCharIndexNoModulo(byte) == byte

CharIndex(byte) == byte % Len(allowedChars)

\* The loop `for (let i = 0; i < 20; i++)` with its refill branch: when
\* hashIndex has reached mainHash.length a new block is hashed from
\* seedData followed by the byte floor(hashIndex / mainHash.length).
RECURSIVE PasswordLoop(_, _, _, _, _)
PasswordLoop(i, hashIndex, mainHash, seedData, password) ==
    IF i >= PasswordLength THEN password
    ELSE LET refill == hashIndex >= Len(mainHash)
             hash == IF refill
                     THEN SHA256(Append(seedData,
                                        (hashIndex \div Len(mainHash)) % 256))
                     ELSE mainHash
             index == IF refill THEN 0 ELSE hashIndex
             charIndex == CharIndex(hash[index + 1])
             \* password += allowedChars[charIndex]; an index outside the
             \* string reads undefined, which += appends as "undefined"
             char == IF charIndex + 1 \in DOMAIN allowedChars
                     THEN <<allowedChars[charIndex + 1]>>
                     ELSE <<117, 110, 100, 101, 102, 105, 110, 101, 100>>
         IN  PasswordLoop(i + 1, index + 1, hash, seedData, password \o char)

\* (variant, for comparison: the number of stored passwords is hashed in)
MutantPasswordFromStoredState(entropy, fullServiceName, version) ==
    LET seedData == SeedData(Append(entropy, Len(passwords)),
                             fullServiceName, version)
    IN  PasswordLoop(0, 0, SHA256(seedData), seedData, <<>>)

\* (variant, for comparison: the loop starts at i = 1)
MutantPasswordOneShort(entropy, fullServiceName, version) ==
    LET seedData == SeedData(entropy, fullServiceName, version)
    IN  PasswordLoop(1, 0, SHA256(seedData), seedData, <<>>)

generatePasswordFromEntropy(entropy, fullServiceName, version) ==
    LET seedData == SeedData(entropy, fullServiceName, version)
    IN  PasswordLoop(0, 0, SHA256(seedData), seedData, <<>>)

\* ------------------------------------------------- crypto.service (pure)

\* Bytes of authenticatorData the model's authenticator returns.
AuthDataLen == 37
\* Entries of dictionary.json (M).
DictSize == 7

\* dictionary.json: ordered entries {char, pinyin, tone}, tone in 1..5.
masterDictionary ==
    [i \in 1..DictSize |-> [char |-> 1000 + i, pinyin |-> 2000 + i,
                            tone |-> ((i - 1) % 5) + 1]]

\* encoder.encode('encryptio-codename-generation')
HkdfInfo ==
    <<101, 110, 99, 114, 121, 112, 116, 105, 111, 45, 99, 111, 100, 101, 110,
      97, 109, 101, 45, 103, 101, 110, 101, 114, 97, 116, 105, 111, 110>>

\* new Uint8Array(authenticatorData) with bytes 21..24 set to 0; a store past
\* the end of a typed array is ignored.
\* Variants of the normalizer used to test the properties below.
MutantNormalizerSkipsLastByte(authenticatorData) ==
    [i \in 1..Len(authenticatorData) |->
        IF i - 1 \in 21..23 THEN 0 ELSE authenticatorData[i]]

MutantNormalizerZeroesFlags(authenticatorData) ==
    [i \in 1..Len(authenticatorData) |->
        IF i - 1 \in 20..24 THEN 0 ELSE authenticatorData[i]]

getDeterministicAuthenticatorData(authenticatorData) ==
    [i \in 1..Len(authenticatorData) |->
        IF i - 1 \in 21..24 THEN 0 ELSE authenticatorData[i]]

\* Stand-in for HMAC-SHA-256(key, message).
Hmac(key, message) == SHA256(key \o message)

\* crypto.subtle.deriveBits HKDF / SHA-256, 512 bits: extract with the salt,
\* expand into two blocks T(1) || T(2).
deriveMasterSeed(authenticatorData, domainString) ==
    LET salt == TextEncode(domainString)
        prk == Hmac(salt, authenticatorData)
        t1 == Hmac(prk, HkdfInfo \o <<1>>)
        t2 == Hmac(prk, t1 \o HkdfInfo \o <<2>>)
    IN  t1 \o t2

\* (variant, for comparison: the four bytes are read little-endian)
MutantSelectCharacterLittleEndian(seedSegment) ==
    LET m == Len(masterDictionary)
        b4 == seedSegment[4] % m
        b3 == (b4 * 256 + seedSegment[3]) % m
        b2 == (b3 * 256 + seedSegment[2]) % m
        value == (b2 * 256 + seedSegment[1]) % m
    IN  masterDictionary[value + 1]

\* new DataView(seedSegment.buffer).getUint32(0, false) % masterDictionary.length;
\* the 32-bit big-endian value is reduced modulo the length byte by byte.
selectCharacter(seedSegment) ==
    LET m == Len(masterDictionary)
        b1 == seedSegment[1] % m
        b2 == (b1 * 256 + seedSegment[2]) % m
        b3 == (b2 * 256 + seedSegment[3]) % m
        value == (b3 * 256 + seedSegment[4]) % m
    IN  masterDictionary[value + 1]

\* Steps 5 and 6 of generateCodename: three characters from the first twelve
\* bytes of the master seed (slice copies the four bytes into a buffer of
\* their own), and the codename with its note.
SelectCodename(masterSeed) ==
    LET char1 == selectCharacter(SubSeq(masterSeed, 1, 4))
        char2 == selectCharacter(SubSeq(masterSeed, 5, 8))
        char3 == selectCharacter(SubSeq(masterSeed, 9, 12))
    IN  [chineseChar |-> <<char1.char, char2.char, char3.char>>,
         pinyinNote |-> <<char1.pinyin, char2.pinyin, char3.pinyin,
                          char1.tone, char2.tone, char3.tone>>]

\* Steps 3 to 6 of generateCodename: from the raw authenticator data to the
\* codename and its note.
DeriveCodename(authenticatorDataRaw, domainString) ==
    LET deterministicAuthData ==
            getDeterministicAuthenticatorData(authenticatorDataRaw)
        masterSeed == deriveMasterSeed(deterministicAuthData, domainString)
    IN  SelectCodename(masterSeed)

\* ------------------------------------------------------------------ state

\* generateDeterministicChallenge(inputString): the SHA-256 digest of the
\* UTF-8 bytes of the whole input string.
generateDeterministicChallenge(inputString) == SHA256(TextEncode(inputString))

\* 'YubiKeyPasswordGenerator-'
ChallengePrefix ==
    <<89, 117, 98, 105, 75, 101, 121, 80, 97, 115, 115, 119, 111, 114, 100, 71,
      101, 110, 101, 114, 97, 116, 111, 114, 45>>

\* generatePassword: challenge = `YubiKeyPasswordGenerator-${serviceName}-v${version}`,
\* which getEntropy passes on as new TextEncoder().encode(challenge).
PasswordChallenge(serviceName, version) ==
    TextEncode(ChallengePrefix \o serviceName \o <<45>> \o VersionTag(version))

vars == <<app, webauthnSupported, credentials, passwords, pwStorage,
          isGenerating, pwLastError, waLastError, auth, db, initPc, calls,
          started, isRegistering, credStorage, regs, ops, register, fn>>

vueVars == <<credentials, passwords, pwStorage, isGenerating, pwLastError,
             waLastError>>
svelteVars == <<auth, db, initPc>>
registerVars == <<isRegistering, credStorage, regs>>
authOpVars == <<ops, register>>
envVars == <<app, webauthnSupported, fn, registerVars, authOpVars>>

Calls == 1..MaxCalls
Versions == 1..MaxVersion

\* What the version field can hold when a generation is started: the field
\* is a number input, and 0 can be typed into it.
VersionInputs == 0..MaxVersion

\* Why navigator.credentials.get rejects: the user dismissed the prompt or
\* the timeout ran out.  The browser reports both as NotAllowedError.
RejectCauses == {"cancelled", "timeout"}

\* What the user types into the service field or the terminal: "a.b", "b"
\* and a blank.
ServiceInputs == {<<97, 46, 98>>, <<98>>, <<32>>}

\* The service names the store is called with.
ServiceNames == {trim(input) : input \in ServiceInputs} \ {<<>>}

\* Signatures the authenticator returns (getEntropy's bytes).
Signatures == {<<1>>, <<1, 97>>}

\* authenticatorData of AuthDataLen bytes; x is the byte at offset 21, n the
\* last byte (the low byte of the signature counter).
AuthenticatorData(x, n) ==
    [i \in 1..AuthDataLen |->
        IF i = 22 THEN x ELSE IF i = AuthDataLen THEN n ELSE (i * 7) % 256]

\* An assertion cut off before offset 24.
ShortAuthenticatorData == SubSeq(AuthenticatorData(3, 0), 1, 24)

AuthenticatorDatas ==
    {AuthenticatorData(3, 0), AuthenticatorData(3, 1), ShortAuthenticatorData}

TheCredential == [id |-> "cred-1", name |-> <<107, 101, 121>>]

\* auth.store.ts: initialState
initialState ==
    [isKeyRegistered |-> FALSE, credentialId |-> Null, username |-> Null,
     isLoading |-> TRUE, error |-> Null]

IdleCall ==
    [pc |-> "idle", via |-> Null, service |-> <<>>, version |-> 0,
     credentialId |-> Null, entropy |-> <<>>, requests |-> 0,
     challenge |-> <<>>, outcome |-> Null, cause |-> Null, error |-> Null,
     result |-> <<>>]

FnOff == [pc |-> "off"]

\* localStorage: no 'yubikey-passwords' item, or the one item <<value>>.
NoItem == <<>>

\* A registerCredential call not yet made.  response is what
\* navigator.credentials.create did for the call, returned what the call
\* returned.
IdleReg ==
    [pc |-> "idle", name |-> <<>>, response |-> Null, id |-> Null,
     returned |-> Null]

\* saveCredentials: the list as the item's text.
saveCredentials(list) == <<list>>

\* No registration has been started; localStorage holds the list if there
\* is one.
NoRegistration ==
    /\ isRegistering = FALSE
    /\ credStorage = (IF credentials = <<>> THEN NoItem
                      ELSE saveCredentials(credentials))
    /\ regs = [r \in 1..MaxRegs |-> IdleReg]

\* An authStore call not yet made, and handleRegister not yet run.
IdleOp == [pc |-> "idle", op |-> Null, arg |-> Null, outcome |-> Null]

IdleRegister == [pc |-> "idle", username |-> Null, id |-> Null, error |-> Null]

NoStoreOperation ==
    /\ ops = [k \in 1..MaxOps |-> IdleOp]
    /\ register = IdleRegister

Init ==
    /\ app \in {"vue", "svelte"}
    /\ webauthnSupported \in BOOLEAN
    /\ credentials \in (IF app = "vue" THEN {<<>>, <<TheCredential>>} ELSE {<<>>})
    /\ passwords = <<>>
    /\ pwStorage = NoItem
    /\ isGenerating = FALSE
    /\ pwLastError = Null
    /\ waLastError = Null
    /\ auth = initialState
    /\ db \in (IF app = "svelte"
               THEN {[credentialId |-> Null, username |-> Null],
                     [credentialId |-> "cred-1", username |-> "user"]}
               ELSE {[credentialId |-> Null, username |-> Null]})
    /\ initPc = (IF app = "svelte" THEN "pending" ELSE "done")
    /\ calls = [c \in Calls |-> IdleCall]
    /\ started = 0
    /\ NoRegistration
    /\ NoStoreOperation
    /\ fn = FnOff

\* ------------------------------------------------------- passwords store

\* c is the number of the call that starts next.
FreeSlot(c) == c = started + 1

NewCall(via, service, version, credentialId) ==
    [IdleCall EXCEPT !.via = via, !.service = service, !.version = version,
                     !.credentialId = credentialId]

Finished(call, outcome, result) ==
    [call EXCEPT !.pc = "done", !.outcome = outcome, !.result = result]

\* The call ends without a value; error is what made it fail.
Failed(call, outcome, error) ==
    [call EXCEPT !.pc = "done", !.outcome = outcome, !.error = error]

\* cause is what happened, error what the caller is given.
FailedBecause(call, outcome, cause, error) ==
    [Failed(call, outcome, error) EXCEPT !.cause = cause]

\* A call in flight when the page is unloaded never completes.
Unloaded(call) ==
    IF call.pc \in {"idle", "done"} THEN call
    ELSE Failed(call, "gone", "page unloaded")

\* passwords.value.findIndex(p => p.service === serviceName && p.version === version)
FindIndex(list, serviceName, version) ==
    LET hits == {i \in DOMAIN list :
                    list[i].service = serviceName /\ list[i].version = version}
    IN  IF hits = {} THEN 0 ELSE CHOOSE i \in hits : \A j \in hits : i <= j

\* Array.prototype.sort with (a, b) => b.version - a.version: a stable sort,
\* so entries of equal version keep their order.  `sorted` is in descending
\* order; the entry goes after those whose version is not below its own.
InsertByVersion(sorted, entry) ==
    LET k == Cardinality({i \in DOMAIN sorted : sorted[i].version >= entry.version})
    IN  SubSeq(sorted, 1, k) \o <<entry>> \o SubSeq(sorted, k + 1, Len(sorted))

RECURSIVE SortByVersionDescending(_)
SortByVersionDescending(list) ==
    IF list = <<>> THEN <<>>
    ELSE InsertByVersion(SortByVersionDescending(SubSeq(list, 1, Len(list) - 1)),
                         list[Len(list)])

getPasswordVersions(serviceName) ==
    SortByVersionDescending(
        SelectSeq(passwords, LAMBDA p : p.service = serviceName))

\* getPasswordVersions(serviceName)[0].version, or 0
getLatestVersion(serviceName) ==
    LET versions == {passwords[i].version : i \in
                        {j \in DOMAIN passwords : passwords[j].service = serviceName}}
    IN  IF versions = {} THEN 0
        ELSE CHOOSE v \in versions : \A w \in versions : w <= v

\* (variant, for comparison: the credential check is missing)
MutantGeneratePasswordSkipsCheck(c, serviceName, version, via) ==
    /\ FreeSlot(c)
    /\ started' = started + 1
    /\ isGenerating' = TRUE
    /\ pwLastError' = Null
    /\ calls' = [calls EXCEPT ![c] =
                    [NewCall(via, serviceName, version,
                             IF credentials = <<>> THEN Null
                             ELSE credentials[1].id)
                        EXCEPT !.pc = "awaitAuth", !.requests = 1,
                               !.challenge =
                                   PasswordChallenge(serviceName, version)]]
    /\ UNCHANGED <<waLastError, credentials, passwords, pwStorage>>
    /\ UNCHANGED svelteVars
    /\ UNCHANGED envVars

\* generatePassword up to its first suspension: the credential check, and
\* getEntropy up to `await navigator.credentials.get(...)`.
generatePassword(c, serviceName, version, via) ==
    /\ FreeSlot(c)
    /\ started' = started + 1
    /\ IF credentials = <<>>
       THEN \* !webAuthnStore.hasCredentials
            /\ pwLastError' = "No YubiKey credentials registered"
            /\ calls' = [calls EXCEPT ![c] =
                            FailedBecause(NewCall(via, serviceName, version, Null),
                                          "null", "no credential", pwLastError')]
            /\ UNCHANGED <<isGenerating, waLastError>>
       ELSE IF ~webauthnSupported
       THEN \* getEntropy returns null without a request; then the finally
            /\ waLastError' = "WebAuthn is not supported"
            /\ pwLastError' = "Failed to get entropy from YubiKey"
            /\ isGenerating' = FALSE
            /\ calls' = [calls EXCEPT ![c] =
                            FailedBecause(NewCall(via, serviceName, version,
                                                  credentials[1].id),
                                          "null", "unavailable", waLastError')]
       ELSE /\ isGenerating' = TRUE
            /\ pwLastError' = Null
            /\ calls' = [calls EXCEPT ![c] =
                            [NewCall(via, serviceName, version, credentials[1].id)
                                EXCEPT !.pc = "awaitAuth", !.requests = 1,
                                       !.challenge =
                                           PasswordChallenge(serviceName, version)]]
            /\ UNCHANGED waLastError
    /\ UNCHANGED <<credentials, passwords, pwStorage>>
    /\ UNCHANGED svelteVars
    /\ UNCHANGED envVars

\* A caller of the store other than the component (the store's tests).
StoreGeneratePassword(c, serviceName, version) ==
    /\ app = "vue"
    /\ generatePassword(c, serviceName, version, "api")

\* PasswordGenerator.vue: generatePassword of the component
ComponentGeneratePassword(c, input, version, via) ==
    IF trim(input) = <<>>
    THEN FreeSlot(c) /\ UNCHANGED vars
    ELSE generatePassword(c, trim(input), version, via)

\* The Generate button: disabled while isGenerating or without a service.
VueClickGenerate(c, input, version) ==
    /\ app = "vue"
    /\ credentials # <<>>
    /\ ~isGenerating
    /\ trim(input) # <<>>
    /\ ComponentGeneratePassword(c, input, version, "button")

\* @keyup.enter of the service field and of the version field.
VueKeyupEnter(c, input, version) ==
    /\ app = "vue"
    /\ credentials # <<>>
    /\ ComponentGeneratePassword(c, input, version, "enter")

\* The New Version button: generateNewVersion
VueClickNewVersion(c, input) ==
    /\ app = "vue"
    /\ credentials # <<>>
    /\ ~isGenerating
    /\ trim(input) # <<>>
    /\ getLatestVersion(trim(input)) > 0
    /\ getLatestVersion(trim(input)) + 1 <= MaxVersion
    /\ ComponentGeneratePassword(c, input, getLatestVersion(trim(input)) + 1,
                                 "button")

\* (variant, for comparison: a failed request is issued once more)
MutantEntropyFailedRetries(c, cause, error) ==
    /\ calls' = [calls EXCEPT ![c] =
                    IF @.requests < 2 THEN [@ EXCEPT !.requests = @ + 1]
                    ELSE FailedBecause(@, "null", cause, error)]
    /\ UNCHANGED <<credentials, passwords, pwStorage, started, isGenerating,
                   pwLastError, waLastError>>
    /\ UNCHANGED svelteVars
    /\ UNCHANGED envVars

\* getEntropy's catch and its `return null`, then generatePassword's
\* `if (!entropy)` and finally.
EntropyFailed(c, cause, error) ==
    /\ waLastError' = (IF error = Null THEN waLastError ELSE error)
    /\ pwLastError' = "Failed to get entropy from YubiKey"
    /\ isGenerating' = FALSE
    /\ calls' = [calls EXCEPT ![c] = FailedBecause(@, "null", cause, error)]
    /\ UNCHANGED <<credentials, passwords, pwStorage, started>>
    /\ UNCHANGED svelteVars
    /\ UNCHANGED envVars

\* navigator.credentials.get resolves with an assertion: the signature is the
\* entropy, and generatePasswordFromEntropy runs up to `await digest`.
VueAuthenticatorResolves(c, signature) ==
    /\ app = "vue"
    /\ calls[c].pc = "awaitAuth"
    /\ calls' = [calls EXCEPT ![c] = [@ EXCEPT !.pc = "awaitHash",
                                               !.entropy = signature]]
    /\ UNCHANGED <<started>>
    /\ UNCHANGED vueVars
    /\ UNCHANGED svelteVars
    /\ UNCHANGED envVars

\* navigator.credentials.get rejects (cancelled, timed out).
VueAuthenticatorRejects(c, cause) ==
    /\ app = "vue"
    /\ calls[c].pc = "awaitAuth"
    /\ EntropyFailed(c, cause, "NotAllowedError")

\* navigator.credentials.get resolves with null.
VueAuthenticatorNull(c) ==
    /\ app = "vue"
    /\ calls[c].pc = "awaitAuth"
    /\ EntropyFailed(c, "null response", Null)

\* localStorage.setItem('yubikey-passwords', JSON.stringify(passwords.value)):
\* the item holds every member of every entry, the password among them.
savePasswords(list) ==
    << [i \in DOMAIN list |->
          [service |-> list[i].service, password |-> list[i].password,
           version |-> list[i].version,
           credentialId |-> list[i].credentialId]] >>

\* (variant, for comparison: the list is cut at its head)
MutantStoreEntryKeepsTail(list, entry) ==
    LET put == IF \E i \in DOMAIN list :
                     list[i].service = entry.service
                     /\ list[i].version = entry.version
               THEN [i \in DOMAIN list |->
                       IF list[i].service = entry.service
                          /\ list[i].version = entry.version
                       THEN entry ELSE list[i]]
               ELSE <<entry>> \o list
    IN  IF Len(put) > 100 THEN SubSeq(put, Len(put) - 99, Len(put)) ELSE put

\* (variant, for comparison: the entry is always put first)
MutantStoreEntryAlwaysUnshift(list, entry) == <<entry>> \o list

\* (variant, for comparison: an entry that is there is kept as it is)
MutantStoreEntryKeepsExisting(list, entry) ==
    IF \E i \in DOMAIN list :
          list[i].service = entry.service /\ list[i].version = entry.version
    THEN list
    ELSE <<entry>> \o list

\* The store's list after a generated password is put in: replaced in place
\* when the pair is there, else put first; then cut to 100.
MaxStored == 100

StoreEntry(list, entry) ==
    LET existingIndex == FindIndex(list, entry.service, entry.version)
        put == IF existingIndex >= 1
               THEN [list EXCEPT ![existingIndex] = entry]
               ELSE <<entry>> \o list
    IN  IF Len(put) > MaxStored THEN SubSeq(put, 1, MaxStored) ELSE put

\* The digest resolves: the password is formed, stored, saved and returned.
VueHashResolves(c) ==
    /\ app = "vue"
    /\ calls[c].pc = "awaitHash"
    /\ LET password == generatePasswordFromEntropy(calls[c].entropy,
                                                   calls[c].service,
                                                   calls[c].version)
           generatedPassword == [service |-> calls[c].service,
                                 password |-> password,
                                 version |-> calls[c].version,
                                 credentialId |-> calls[c].credentialId]
       IN  /\ passwords' = StoreEntry(passwords, generatedPassword)
           /\ pwStorage' = savePasswords(passwords')
           /\ calls' = [calls EXCEPT ![c] = Finished(@, "ok", password)]
    /\ isGenerating' = FALSE
    /\ UNCHANGED <<credentials, pwLastError, waLastError, started>>
    /\ UNCHANGED svelteVars
    /\ UNCHANGED envVars

\* (variant, for comparison: the failure empties the list)
MutantHashRejectsEmptiesList(c) ==
    /\ app = "vue"
    /\ calls[c].pc = "awaitHash"
    /\ pwLastError' = "digest failed"
    /\ isGenerating' = FALSE
    /\ passwords' = <<>>
    /\ pwStorage' = savePasswords(passwords')
    /\ calls' = [calls EXCEPT ![c] =
                    FailedBecause(@, "null", "derivation", pwLastError')]
    /\ UNCHANGED <<credentials, waLastError, started>>
    /\ UNCHANGED svelteVars
    /\ UNCHANGED envVars

\* crypto.subtle.digest throws or rejects: the catch and the finally.
VueHashRejects(c) ==
    /\ app = "vue"
    /\ calls[c].pc = "awaitHash"
    /\ pwLastError' = "digest failed"
    /\ isGenerating' = FALSE
    /\ calls' = [calls EXCEPT ![c] =
                    FailedBecause(@, "null", "derivation", pwLastError')]
    /\ UNCHANGED <<credentials, passwords, pwStorage, waLastError, started>>
    /\ UNCHANGED svelteVars
    /\ UNCHANGED envVars

\* (variant, for comparison: every version of the service is removed)
MutantRemoveAllVersions(service, version) ==
    /\ app = "vue"
    /\ passwords' = SelectSeq(passwords, LAMBDA p : p.service # service)
    /\ pwStorage' = savePasswords(passwords')
    /\ UNCHANGED <<credentials, isGenerating, pwLastError, waLastError>>
    /\ UNCHANGED <<calls, started>>
    /\ UNCHANGED svelteVars
    /\ UNCHANGED envVars

removePassword(service, version) ==
    /\ app = "vue"
    /\ passwords' = SelectSeq(passwords,
            LAMBDA p : ~(p.service = service /\ p.version = version))
    /\ pwStorage' = savePasswords(passwords')
    /\ UNCHANGED <<credentials, isGenerating, pwLastError, waLastError>>
    /\ UNCHANGED <<calls, started>>
    /\ UNCHANGED svelteVars
    /\ UNCHANGED envVars

clearPasswords ==
    /\ app = "vue"
    /\ passwords' = <<>>
    /\ pwStorage' = savePasswords(passwords')
    /\ UNCHANGED <<credentials, isGenerating, pwLastError, waLastError>>
    /\ UNCHANGED <<calls, started>>
    /\ UNCHANGED svelteVars
    /\ UNCHANGED envVars

\* loadPasswords: the saved list, a missing version read as 1.
loadPasswords(saved) ==
    IF saved = NoItem THEN <<>>
    ELSE [i \in DOMAIN saved[1] |->
            [saved[1][i] EXCEPT !.version = IF @ = 0 THEN 1 ELSE @]]

\* The page is loaded again: the stores are created anew and read
\* localStorage; calls in flight are gone with the old page, finished ones
\* stay on record.
VueReload ==
    /\ app = "vue"
    /\ started > 0
    /\ passwords' = loadPasswords(pwStorage)
    /\ isGenerating' = FALSE
    /\ pwLastError' = Null
    /\ waLastError' = Null
    /\ calls' = [c \in Calls |-> Unloaded(calls[c])]
    /\ UNCHANGED <<credentials, pwStorage, started>>
    /\ UNCHANGED svelteVars
    /\ UNCHANGED envVars

\* --------------------------------------- authStore and Generator (Svelte)

\* initializeAuth(): both reads succeed (dbOk) or one rejects.
SvelteInitializeAuth(dbOk) ==
    /\ app = "svelte"
    /\ initPc = "pending"
    /\ initPc' = "done"
    /\ auth' = IF ~dbOk
               THEN [auth EXCEPT !.isLoading = FALSE,
                                 !.error = "Failed to initialize"]
               ELSE IF db.credentialId # Null /\ db.username # Null
               THEN [auth EXCEPT !.isKeyRegistered = TRUE,
                                 !.credentialId = db.credentialId,
                                 !.username = db.username,
                                 !.isLoading = FALSE, !.error = Null]
               ELSE [auth EXCEPT !.isKeyRegistered = FALSE,
                                 !.credentialId = Null, !.username = Null,
                                 !.isLoading = FALSE, !.error = Null]
    /\ UNCHANGED <<db, calls, started>>
    /\ UNCHANGED vueVars
    /\ UNCHANGED envVars

\* App.svelte renders Generator when the store is not loading and a key is
\* registered; its input is enabled then.
GeneratorRendered == ~auth.isLoading /\ auth.isKeyRegistered

\* Generator.svelte: handleSubmit up to its first suspension, the digest of
\* generateDeterministicChallenge.  version is the version of the caller's
\* request; handleSubmit and generateCodename have no parameter for it.
handleSubmit(c, input, version) ==
    /\ app = "svelte"
    /\ FreeSlot(c)
    /\ IF trim(input) = <<>>
       THEN UNCHANGED vars
       ELSE /\ started' = started + 1
            /\ IF auth.credentialId = Null
               THEN \* the error is reported; then the finally
                    /\ auth' = [auth EXCEPT !.error = "No security key registered",
                                            !.isLoading = FALSE]
                    /\ calls' = [calls EXCEPT ![c] =
                                    FailedBecause(NewCall("enter", trim(input),
                                                          version, Null),
                                                  "error", "no credential",
                                                  auth'.error)]
               ELSE /\ auth' = [auth EXCEPT !.error = Null, !.isLoading = TRUE]
                    /\ calls' = [calls EXCEPT ![c] =
                                    [NewCall("enter", trim(input), version,
                                             auth.credentialId)
                                        EXCEPT !.pc = "awaitChallenge"]]
            /\ UNCHANGED <<db, initPc>>
            /\ UNCHANGED vueVars
            /\ UNCHANGED envVars

\* Enter in the terminal input of the Generator that App.svelte renders.
SvelteHandleSubmit(c, input, version) ==
    /\ GeneratorRendered
    /\ handleSubmit(c, input, version)

\* Enter in the terminal input of a Generator mounted on its own, with a
\* store that holds no key (the component outside App.svelte's screens).
SvelteSubmitStandalone(c, input, version) ==
    /\ initPc = "done"
    /\ ~auth.isLoading
    /\ ~auth.isKeyRegistered
    /\ handleSubmit(c, input, version)

\* generateCodename throws; handleSubmit's catch and finally.
SvelteFail(c, cause, message) ==
    /\ auth' = [auth EXCEPT !.error = message, !.isLoading = FALSE]
    /\ calls' = [calls EXCEPT ![c] = FailedBecause(@, "throw", cause, message)]
    /\ UNCHANGED <<db, initPc, started>>
    /\ UNCHANGED vueVars
    /\ UNCHANGED envVars

\* The challenge digest resolves: authenticateSecurityKey throws without
\* window.PublicKeyCredential, else calls navigator.credentials.get.
SvelteChallengeResolves(c) ==
    /\ app = "svelte"
    /\ calls[c].pc = "awaitChallenge"
    /\ IF ~webauthnSupported
       THEN SvelteFail(c, "unavailable", "WebAuthn is not supported")
       ELSE /\ calls' = [calls EXCEPT ![c] =
                            [@ EXCEPT !.pc = "awaitAuth", !.requests = @ + 1,
                                      !.challenge =
                                          generateDeterministicChallenge(calls[c].service)]]
            /\ UNCHANGED <<auth, db, initPc, started>>
            /\ UNCHANGED vueVars
            /\ UNCHANGED envVars

SvelteChallengeRejects(c) ==
    /\ app = "svelte"
    /\ calls[c].pc = "awaitChallenge"
    /\ SvelteFail(c, "derivation", "digest failed")

\* navigator.credentials.get resolves with an assertion; the data is made
\* deterministic and deriveMasterSeed runs up to `await importKey`.
SvelteAuthenticatorResolves(c, authenticatorData) ==
    /\ app = "svelte"
    /\ calls[c].pc = "awaitAuth"
    /\ calls' = [calls EXCEPT ![c] = [@ EXCEPT !.pc = "awaitHash",
                                               !.entropy = authenticatorData]]
    /\ UNCHANGED <<auth, db, initPc, started>>
    /\ UNCHANGED vueVars
    /\ UNCHANGED envVars

SvelteAuthenticatorRejects(c, cause) ==
    /\ app = "svelte"
    /\ calls[c].pc = "awaitAuth"
    /\ SvelteFail(c, cause, "Security key operation cancelled")

\* authenticateSecurityKey returns null: generateCodename throws.
SvelteAuthenticatorNull(c) ==
    /\ app = "svelte"
    /\ calls[c].pc = "awaitAuth"
    /\ SvelteFail(c, "null response", "Failed to get authenticator data")

\* HKDF resolves: the characters are selected and the codename returned;
\* handleSubmit shows it; then the finally.
SvelteDeriveResolves(c) ==
    /\ app = "svelte"
    /\ calls[c].pc = "awaitHash"
    /\ calls' = [calls EXCEPT ![c] =
                    Finished(@, "ok", DeriveCodename(calls[c].entropy,
                                                     calls[c].service))]
    /\ auth' = [auth EXCEPT !.isLoading = FALSE]
    /\ UNCHANGED <<db, initPc, started>>
    /\ UNCHANGED vueVars
    /\ UNCHANGED envVars

SvelteDeriveRejects(c) ==
    /\ app = "svelte"
    /\ calls[c].pc = "awaitHash"
    /\ SvelteFail(c, "derivation", "derivation failed")

\* The page is loaded again: the store starts from initialState and
\* initializeAuth runs; calls in flight are gone with the old page, finished
\* ones stay on record.
SvelteReload ==
    /\ app = "svelte"
    /\ started > 0
    /\ auth' = initialState
    /\ initPc' = "pending"
    /\ calls' = [c \in Calls |-> Unloaded(calls[c])]
    /\ UNCHANGED <<db, started>>
    /\ UNCHANGED vueVars
    /\ UNCHANGED envVars

\* ------------------------------------------------------------ behaviours

Next ==
    \/ \E c \in Calls, input \in ServiceInputs, version \in VersionInputs :
          \/ StoreGeneratePassword(c, trim(input), version)
          \/ VueClickGenerate(c, input, version)
          \/ VueKeyupEnter(c, input, version)
          \/ VueClickNewVersion(c, input)
    \/ \E c \in Calls, input \in ServiceInputs, version \in Versions :
          \/ SvelteHandleSubmit(c, input, version)
          \/ SvelteSubmitStandalone(c, input, version)
    \/ \E c \in Calls :
          \/ \E signature \in Signatures : VueAuthenticatorResolves(c, signature)
          \/ \E cause \in RejectCauses : VueAuthenticatorRejects(c, cause)
          \/ VueAuthenticatorNull(c)
          \/ VueHashResolves(c)
          \/ VueHashRejects(c)
          \/ SvelteChallengeResolves(c)
          \/ SvelteChallengeRejects(c)
          \/ \E data \in AuthenticatorDatas : SvelteAuthenticatorResolves(c, data)
          \/ \E cause \in RejectCauses : SvelteAuthenticatorRejects(c, cause)
          \/ SvelteAuthenticatorNull(c)
          \/ SvelteDeriveResolves(c)
          \/ SvelteDeriveRejects(c)
    \/ \E service \in ServiceNames, version \in VersionInputs :
          removePassword(service, version)
    \/ clearPasswords
    \/ VueReload
    \/ \E dbOk \in BOOLEAN : SvelteInitializeAuth(dbOk)
    \/ SvelteReload

Spec == Init /\ [][Next]_vars

\* ------------------------------------- the pure functions on their own

\* "a", ".", and the two halves of the pair U+1F600 (0xD83D, 0xDE00).
ServiceChars == {97, 46, 55357, 56832}

RECURSIVE StringsUpTo(_)
StringsUpTo(n) ==
    IF n = 0 THEN {<<>>}
    ELSE LET shorter == StringsUpTo(n - 1)
         IN  shorter \cup {Append(s, ch) : s \in shorter, ch \in ServiceChars}

FnServiceInputs == StringsUpTo(MaxServiceLen)

\* The service inputs the first one is compared with: "a", each half of the
\* pair alone, "a.a" and the pair.
FnOtherServiceInputs ==
    {<<97>>, <<55357>>, <<56832>>, <<97, 46, 97>>, <<55357, 56832>>}

FnEntropies == {<<1>>, <<200, 3>>}

\* Everything but fn rests: no application runs.
SystemAtRest ==
    /\ app = "none"
    /\ webauthnSupported = FALSE
    /\ credentials = <<>>
    /\ passwords = <<>>
    /\ pwStorage = NoItem
    /\ isGenerating = FALSE
    /\ pwLastError = Null
    /\ waLastError = Null
    /\ auth = initialState
    /\ db = [credentialId |-> Null, username |-> Null]
    /\ initPc = "done"
    /\ calls = [c \in Calls |-> IdleCall]
    /\ started = 0
    /\ NoRegistration
    /\ NoStoreOperation

InitFn ==
    /\ SystemAtRest
    /\ \E entropy \in FnEntropies, serviceA \in FnServiceInputs,
          serviceB \in FnOtherServiceInputs, versionA \in Versions,
          versionB \in Versions :
          fn = [pc |-> "in", entropy |-> entropy, serviceA |-> serviceA,
                serviceB |-> serviceB, versionA |-> versionA,
                versionB |-> versionB]

\* generatePasswordFromEntropy applied to (entropy, serviceA, versionA) and to
\* (entropy, serviceB, versionB); with them the challenges the two requests
\* present to the authenticator, and the codenames of the two inputs for one
\* and the same authenticator data.
FnApply ==
    /\ fn.pc = "in"
    /\ fn' = [pc |-> "out", entropy |-> fn.entropy,
              serviceA |-> fn.serviceA, serviceB |-> fn.serviceB,
              versionA |-> fn.versionA, versionB |-> fn.versionB,
              labelA |-> CanonicalLabel(fn.serviceA),
              labelB |-> CanonicalLabel(fn.serviceB),
              hashA |-> SHA256(SeedData(fn.entropy, fn.serviceA, fn.versionA)),
              passwordA |-> generatePasswordFromEntropy(fn.entropy, fn.serviceA,
                                                        fn.versionA),
              passwordB |-> generatePasswordFromEntropy(fn.entropy, fn.serviceB,
                                                        fn.versionB),
              challengeA |-> PasswordChallenge(fn.serviceA, fn.versionA),
              challengeB |-> PasswordChallenge(fn.serviceB, fn.versionB),
              digestA |-> generateDeterministicChallenge(fn.serviceA),
              digestB |-> generateDeterministicChallenge(fn.serviceB),
              codenameA |-> DeriveCodename(AuthenticatorData(3, 0), fn.serviceA),
              codenameB |-> DeriveCodename(AuthenticatorData(3, 0), fn.serviceB)]
    /\ UNCHANGED <<app, webauthnSupported, calls, started, registerVars,
                   authOpVars>>
    /\ UNCHANGED vueVars
    /\ UNCHANGED svelteVars

NextFn == FnApply

SpecFn == InitFn /\ [][NextFn]_vars

\* ------------------------------------------------- properties of SpecFn

FnDone == fn.pc = "out"

\* The stand-in digest separates the seeds SpecFn draws: distinct seeds have
\* distinct digests.
DigestCollisionFree ==
    FnDone =>
        LET seedA == SeedData(fn.entropy, fn.serviceA, fn.versionA)
            seedB == SeedData(fn.entropy, fn.serviceB, fn.versionB)
        IN  seedA # seedB => SHA256(seedA) # SHA256(seedB)

\* A string without a surrogate that lacks its partner.
RECURSIVE WellFormedFrom(_, _)
WellFormedFrom(s, i) ==
    IF i > Len(s) THEN TRUE
    ELSE IF IsHighSurrogate(s[i]) /\ i < Len(s) /\ IsLowSurrogate(s[i + 1])
    THEN WellFormedFrom(s, i + 2)
    ELSE ~IsHighSurrogate(s[i]) /\ ~IsLowSurrogate(s[i])
            /\ WellFormedFrom(s, i + 1)

WellFormed(s) == WellFormedFrom(s, 1)

\* With the same entropy and version, two well-formed labels that differ
\* give different passwords.
IsolationOfWellFormedLabels ==
    (FnDone /\ fn.versionA = fn.versionB /\ fn.labelA # fn.labelB
        /\ WellFormed(fn.labelA) /\ WellFormed(fn.labelB))
        => fn.passwordA # fn.passwordB

\* C3: with the same entropy and the same version, two service inputs whose
\* canonical labels differ give different passwords.
C3_ServiceIsolation ==
    (FnDone /\ fn.versionA = fn.versionB /\ fn.labelA # fn.labelB)
        => fn.passwordA # fn.passwordB

\* C8: every password generatePasswordFromEntropy returns has exactly 20
\* characters.
C8_PasswordLength ==
    FnDone => Len(fn.passwordA) = 20 /\ Len(fn.passwordB) = 20

C8_Witness ==
    /\ FnDone
    /\ fn.serviceA = <<97, 46, 56832>>
    /\ Len(fn.passwordA) = 20

\* C9: every character of a password is a character of the allowed alphabet,
\* the one at index (hash byte mod alphabet length), an index in 0..N-1.
C9_AlphabetContainment ==
    FnDone =>
        \A i \in DOMAIN fn.passwordA :
            /\ fn.passwordA[i] \in Range(allowedChars)
            /\ CharIndex(fn.hashA[i]) \in 0..(Len(allowedChars) - 1)
            /\ CharIndex(fn.hashA[i]) = fn.hashA[i] % Len(allowedChars)
            /\ fn.passwordA[i] = allowedChars[(fn.hashA[i] % Len(allowedChars)) + 1]

\* A hash byte above the alphabet length is reduced into the alphabet.
C9_Witness ==
    /\ FnDone
    /\ \E i \in DOMAIN fn.passwordA :
          /\ fn.hashA[i] >= Len(allowedChars)
          /\ fn.passwordA[i] = allowedChars[(fn.hashA[i] % Len(allowedChars)) + 1]

\* Positions of the '.' characters of s.
DotPositions(s) == {i \in DOMAIN s : s[i] = 46}

Maximum(S) == CHOOSE x \in S : \A y \in S : y <= x

\* The text between the last '.' and the '.' before it (or the start).
SecondToLastSegment(s) ==
    LET last == Maximum(DotPositions(s))
        before == DotPositions(s) \ {last}
        from == IF before = {} THEN 1 ELSE Maximum(before) + 1
    IN  SubSeq(s, from, last - 1)

\* C10: the canonical label is the second-to-last '.'-separated segment of
\* the input when the input has more than one segment, else the whole input.
C10_Canonicalization ==
    FnDone =>
        fn.labelA = IF DotPositions(fn.serviceA) = {}
                    THEN fn.serviceA
                    ELSE SecondToLastSegment(fn.serviceA)

C10_Witness ==
    /\ FnDone
    /\ fn.serviceA = <<97, 46, 56832>>
    /\ fn.labelA = <<97>>
    /\ fn.serviceB = <<56832>>
    /\ fn.labelB = <<56832>>

\* --------------------------------------------------- properties of Spec

Succeeded(c) == calls[c].pc = "done" /\ calls[c].outcome = "ok"

PasswordVersionIndependence ==
    \A c \in Calls, d \in Calls :
        (/\ app = "vue"
         /\ Succeeded(c) /\ Succeeded(d)
         /\ calls[c].credentialId = calls[d].credentialId
         /\ calls[c].service = calls[d].service
         /\ calls[c].version # calls[d].version)
            => calls[c].result # calls[d].result

\* C2: for the same credential and service input, the artifact generated for
\* version 1 differs from the one generated for version 2, for passwords and
\* for codenames.
C2_VersionIndependence ==
    \A c \in Calls, d \in Calls :
        (/\ Succeeded(c) /\ Succeeded(d)
         /\ calls[c].credentialId = calls[d].credentialId
         /\ calls[c].service = calls[d].service
         /\ calls[c].version = 1 /\ calls[d].version = 2)
            => calls[c].result # calls[d].result

\* Calls the user interface started that await navigator.credentials.get.
AwaitingAuthenticator ==
    {c \in Calls : calls[c].pc = "awaitAuth" /\ calls[c].via \in {"button", "enter"}}

\* The codename generator has one call in progress at most.
SvelteSerialized ==
    app = "svelte" =>
        Cardinality({c \in Calls : calls[c].pc \notin {"idle", "done"}}) <= 1

\* C4: never are two authenticator requests outstanding at once, whichever
\* way the user interface starts the generation.
C4_OneRequestOutstanding == Cardinality(AwaitingAuthenticator) <= 1

\* The calls of this claim: a credential is registered and the input valid.
WithCredentialAndValidInput(c) ==
    /\ calls[c].credentialId # Null
    /\ calls[c].service # <<>>
    /\ calls[c].version >= 1

\* The call got as far as navigator.credentials.get: the platform has
\* WebAuthn and, for a codename, the challenge digest was computed.
ReachedAuthenticator(c) ==
    /\ webauthnSupported
    /\ calls[c].pc # "awaitChallenge"
    /\ calls[c].error \notin {"digest failed", "page unloaded"}

RequestsPerCall ==
    \A c \in Calls :
        /\ calls[c].requests <= 1
        /\ (calls[c].pc \in {"awaitAuth", "awaitHash"}) => calls[c].requests = 1
        /\ (calls[c].pc = "done" /\ WithCredentialAndValidInput(c)
                /\ ReachedAuthenticator(c)) => calls[c].requests = 1
        /\ (calls[c].pc = "done" /\ ~webauthnSupported) => calls[c].requests = 0

\* A request is issued only by a call that is starting, or by a codename
\* call whose challenge is ready: never for a call that failed or ended.
NoRetry ==
    \A c \in Calls :
        calls'[c].requests > calls[c].requests
            => calls[c].pc \in {"idle", "awaitChallenge"}

FailingStepOf(c) ==
    /\ calls'[c] # calls[c]
    /\ ~(calls'[c].pc = "done" /\ calls'[c].outcome \in {"ok", "gone"})

NothingOnFailure ==
    \A c \in Calls :
        /\ FailingStepOf(c) =>
                /\ passwords' = passwords
                /\ pwStorage' = pwStorage
                /\ calls'[c].result = <<>>
        /\ (calls'[c].pc = "done" /\ calls'[c].outcome = "ok")
                => calls'[c].result # <<>>

PersistedPasswords ==
    IF pwStorage = NoItem THEN {}
    ELSE {pwStorage[1][i].password : i \in DOMAIN pwStorage[1]}

\* C7: no generated password value is held in persistent storage.
C7_SecretNeverPersisted ==
    \A c \in Calls :
        (app = "vue" /\ Succeeded(c)) => calls[c].result \notin PersistedPasswords

\* C11: the challenge presented to the authenticator is a 32-byte digest
\* that depends on the canonical label only: two service inputs with the
\* same canonical label (and version) present the same challenge, and
\* generate the same codename from the same authenticator data.
C11_ChallengeOfCanonicalLabel ==
    (FnDone /\ fn.labelA = fn.labelB /\ fn.versionA = fn.versionB) =>
        /\ Len(fn.challengeA) = HashLen
        /\ fn.challengeA = fn.challengeB
        /\ fn.digestA = fn.digestB
        /\ fn.codenameA = fn.codenameB

\* The codename challenge is a digest of HashLen bytes, of the whole input.
CodenameChallengeIsDigest ==
    FnDone => Len(fn.digestA) = HashLen /\ Len(fn.digestB) = HashLen

-----------------------------------------------------------------------------
\* The normalizer on its own.  Buffers live in a heap (a sequence of byte
\* strings addressed by position), so that copying and writing in place are
\* different things: `new Uint8Array(typedArray)` allocates a fresh buffer
\* holding a copy, and the four writes go to that buffer.

NormLengths == {0, 21, 22, 24, 25, 26, AuthDataLen}

NormSeeds == {1, 200}

\* Offsets around the counter at which the second assertion may differ.
NormWindow == 20..25

RawAssertion(len, seed) == [i \in 1..len |-> ((i - 1) * 37 + seed) % 256]

\* raw, changed at the offsets of `offsets` that it has.
Differing(raw, offsets) ==
    [i \in 1..Len(raw) |->
        IF i - 1 \in offsets THEN (raw[i] + 1) % 256 ELSE raw[i]]

\* The call getDeterministicAuthenticatorData(heap[ref]): the heap after it
\* and the reference it returns.
NormalizeOnHeap(heap, ref) ==
    [heap |-> Append(heap, getDeterministicAuthenticatorData(heap[ref])),
     ref |-> Len(heap) + 1]

InitNorm ==
    /\ SystemAtRest
    /\ \E len \in NormLengths, seed \in NormSeeds, offsets \in SUBSET NormWindow :
          fn = [pc |-> "raw",
                heap |-> <<RawAssertion(len, seed),
                           Differing(RawAssertion(len, seed), offsets)>>,
                inA |-> 1, inB |-> 2]

NormApply ==
    /\ fn.pc = "raw"
    /\ LET first == NormalizeOnHeap(fn.heap, fn.inA)
           second == NormalizeOnHeap(first.heap, fn.inB)
       IN  fn' = [pc |-> "normalized", before |-> fn.heap,
                  heap |-> second.heap, inA |-> fn.inA, inB |-> fn.inB,
                  outA |-> first.ref, outB |-> second.ref]
    /\ UNCHANGED <<app, webauthnSupported, calls, started, registerVars,
                   authOpVars>>
    /\ UNCHANGED vueVars
    /\ UNCHANGED svelteVars

NextNorm == NormApply

SpecNorm == InitNorm /\ [][NextNorm]_vars

Normalized == fn.pc = "normalized"

CounterOffsets == 21..24

\* The offsets at which two byte strings of equal length differ.
DiffOffsets(a, b) == {i - 1 : i \in {j \in 1..Len(a) : a[j] # b[j]}}

\* C12: two raw assertions of equal length that differ only at offsets
\* 21..24 are mapped to identical bytes by the normalizer.
C12_CounterInvariance ==
    (/\ Normalized
     /\ Len(fn.before[fn.inA]) = Len(fn.before[fn.inB])
     /\ DiffOffsets(fn.before[fn.inA], fn.before[fn.inB]) \subseteq CounterOffsets)
        => fn.heap[fn.outA] = fn.heap[fn.outB]

\* Two assertions that differ at every one of the four counter offsets and
\* nowhere else have been normalized.
C12_Witness ==
    /\ Normalized
    /\ DiffOffsets(fn.before[fn.inA], fn.before[fn.inB]) = CounterOffsets
    /\ fn.heap[fn.outA] = fn.heap[fn.outB]

\* C13: the normalizer is pure: it returns a new buffer of the same length
\* as its input whose bytes equal the input's except that offsets 21..24
\* are zero, and it leaves the input as it was.
C13_NormalizerIsPure ==
    Normalized =>
        /\ fn.outA # fn.inA
        /\ fn.outA \notin DOMAIN fn.before
        /\ Len(fn.heap[fn.outA]) = Len(fn.before[fn.inA])
        /\ \A i \in 1..Len(fn.before[fn.inA]) :
              fn.heap[fn.outA][i] =
                  IF i - 1 \in CounterOffsets THEN 0 ELSE fn.before[fn.inA][i]
        /\ fn.heap[fn.inA] = fn.before[fn.inA]
        /\ fn.heap[fn.inB] = fn.before[fn.inB]

\* A full-length assertion whose counter bytes and flags byte are all
\* nonzero has been normalized: the counter is zero in the result and not
\* in the input.
C13_Witness ==
    /\ Normalized
    /\ Len(fn.before[fn.inA]) = AuthDataLen
    /\ \A o \in NormWindow : fn.before[fn.inA][o + 1] # 0
    /\ \A o \in CounterOffsets : fn.heap[fn.outA][o + 1] = 0
    /\ \A o \in CounterOffsets : fn.heap[fn.inA][o + 1] # 0

-----------------------------------------------------------------------------
\* The shortest raw assertion that holds the whole counter.
MinAssertionLen == 25

\* C14: a raw assertion shorter than 25 bytes is rejected with
\* MalformedAssertion, and the generation it belongs to fails: no codename
\* generation that received such an assertion ends with a codename.
C14_ShortAssertionRejected ==
    \A c \in DOMAIN calls :
        (/\ app = "svelte"
         /\ calls[c].pc = "done"
         /\ calls[c].outcome # "gone"
         /\ calls[c].requests = 1
         /\ calls[c].entropy # <<>>
         /\ Len(calls[c].entropy) < MinAssertionLen)
            => /\ calls[c].outcome = "throw"
               /\ calls[c].error = "MalformedAssertion"

-----------------------------------------------------------------------------
\* What the caller of generatePassword / generateCodename has in hand after
\* a failed call: how the call ended (null returned, or an Error thrown) and
\* the most specific error text the stores and the Error carry.
Observation(call) == <<call.outcome, call.error>>

\* The causes of failure that are to be told apart.
ErrorKinds == {"unavailable", "cancelled", "timeout", "malformed", "derivation"}

FailedOfKind(c) ==
    /\ calls[c].pc = "done"
    /\ calls[c].outcome \in {"null", "throw"}
    /\ calls[c].cause \in ErrorKinds

\* C15: failures reach the caller as distinct error kinds: two generations
\* that failed for different causes among capability unavailable, user
\* cancelled, timeout, malformed assertion and derivation error leave the
\* caller with different observations.
C15_DistinctErrorKinds ==
    \A c, d \in DOMAIN calls :
        (FailedOfKind(c) /\ FailedOfKind(d) /\ calls[c].cause # calls[d].cause)
            => Observation(calls[c]) # Observation(calls[d])

-----------------------------------------------------------------------------
\* No credential is registered: the WebAuthn store holds none (Vue), the
\* auth store holds no credentialId (Svelte).
NoCredential ==
    IF app = "vue" THEN credentials = <<>> ELSE auth.credentialId = Null

\* The sum of the authenticator requests of all calls.
RECURSIVE RequestsUpTo(_, _)
RequestsUpTo(cs, n) ==
    IF n = 0 THEN 0 ELSE cs[n].requests + RequestsUpTo(cs, n - 1)

TotalRequests(cs) == RequestsUpTo(cs, Len(cs))

\* A generation started in this step without a registered credential has
\* already failed at the end of the step, with no request made by anyone.
FailsBeforeAuthenticator ==
    (started' = started + 1 /\ NoCredential) =>
        /\ calls'[started'].pc = "done"
        /\ calls'[started'].requests = 0
        /\ calls'[started'].result = <<>>
        /\ TotalRequests(calls') = TotalRequests(calls)
        /\ app = "vue" =>
              /\ calls'[started'].outcome = "null"
              /\ pwLastError' = "No YubiKey credentials registered"
        /\ app = "svelte" =>
              /\ calls'[started'].outcome = "error"
              /\ auth'.error = "No security key registered"

\* A call that is over makes no request later.
OverStaysOver ==
    \A c \in DOMAIN calls :
        calls[c].pc = "done" => calls'[c].requests = calls[c].requests

\* C16: generation without a registered credential fails before touching
\* the authenticator: generatePassword returns null with lastError
\* 'No YubiKey credentials registered' and makes no authenticator request;
\* handleSubmit without a credentialId reports an error and generateCodename
\* is not called.
C16_NoCredentialNoRequest == [][FailsBeforeAuthenticator /\ OverStaysOver]_vars

\* generatePassword has been called with no credential registered and has
\* returned null.
C16_Witness ==
    /\ app = "vue"
    /\ credentials = <<>>
    /\ \E c \in DOMAIN calls :
          /\ calls[c].pc = "done"
          /\ calls[c].credentialId = Null
          /\ calls[c].outcome = "null"
          /\ calls[c].requests = 0
          /\ calls[c].error = "No YubiKey credentials registered"

\* handleSubmit has run with no credentialId in the store and has reported
\* the error.
SubmitWithoutCredentialReached ==
    /\ app = "svelte"
    /\ \E c \in DOMAIN calls :
          /\ calls[c].pc = "done"
          /\ calls[c].credentialId = Null
          /\ calls[c].outcome = "error"
          /\ calls[c].requests = 0

-----------------------------------------------------------------------------
\* C17: preconditions are enforced before the authenticator is used: a
\* generate request whose service input is empty after trimming, or whose
\* version is below 1, makes no authenticator request and yields no
\* artifact.  (Stated for the requests made through the components; blank
\* input starts no call at all there.)
C17_PreconditionsEnforced ==
    \A c \in DOMAIN calls :
        (/\ calls[c].via \in {"button", "enter"}
         /\ calls[c].pc # "idle"
         /\ (trim(calls[c].service) = <<>> \/ calls[c].version < 1))
            => /\ calls[c].requests = 0
               /\ calls[c].result = <<>>
               /\ \A i \in DOMAIN passwords :
                     passwords[i].version >= 1 /\ trim(passwords[i].service) # <<>>

\* Through the components no call is started with a service that is empty
\* after trimming.
NoBlankServiceFromComponents ==
    \A c \in DOMAIN calls :
        (calls[c].via \in {"button", "enter"} /\ calls[c].pc # "idle")
            => trim(calls[c].service) # <<>>

-----------------------------------------------------------------------------
\* The step in which call c of the password store returns its password.
ReturnsPassword(c) ==
    /\ app = "vue"
    /\ calls[c].pc # "done"
    /\ calls'[c].pc = "done"
    /\ calls'[c].outcome = "ok"

\* C18: after a successful generatePassword(service, version) the passwords
\* list contains an entry with that service and version, the returned
\* string as password and the primary credential's id as credentialId.
C18_GeneratedIsStored ==
    [][\A c \in DOMAIN calls :
          ReturnsPassword(c) =>
              \E i \in DOMAIN passwords' :
                  /\ passwords'[i].service = calls[c].service
                  /\ passwords'[i].version = calls[c].version
                  /\ passwords'[i].password = calls'[c].result
                  /\ passwords'[i].credentialId = credentials[1].id]_vars

\* A second generation of a pair that is in the list has returned another
\* password than the first, and the list holds the second one.
C18_Witness ==
    /\ app = "vue"
    /\ \E c, d \in DOMAIN calls :
          /\ c < d
          /\ Succeeded(c) /\ Succeeded(d)
          /\ calls[c].service = calls[d].service
          /\ calls[c].version = calls[d].version
          /\ calls[c].result # calls[d].result
          /\ \E i \in DOMAIN passwords :
                /\ passwords[i].service = calls[d].service
                /\ passwords[i].version = calls[d].version
                /\ passwords[i].password = calls[d].result
                /\ passwords[i].credentialId = credentials[1].id

-----------------------------------------------------------------------------
\* The services getPasswordVersions is asked about: those that can be in
\* the list, and one that is never there.
AskedServices == ServiceNames \cup {<<>>} \cup {<<122>>}

\* How many entries of the list are entries of the service.
CountOf(list, serviceName) ==
    Cardinality({i \in DOMAIN list : list[i].service = serviceName})

\* getPasswordVersions returns the entries of the service, all of them and
\* nothing else, in an order in which no version is followed by a greater.
VersionsSelectedAndDescending ==
    \A serviceName \in AskedServices :
        LET versions == getPasswordVersions(serviceName)
        IN  /\ Len(versions) = CountOf(passwords, serviceName)
            /\ \A j \in DOMAIN versions : versions[j].service = serviceName
            /\ \A i \in DOMAIN passwords :
                  passwords[i].service = serviceName =>
                      \E j \in DOMAIN versions : versions[j] = passwords[i]
            /\ \A j, k \in DOMAIN versions :
                  j < k => versions[j].version >= versions[k].version

\* C19: getPasswordVersions(service) returns exactly the stored entries of
\* the service, ordered by version strictly descending, and no entry of
\* another service.
C19_VersionsStrictlyDescending ==
    \A serviceName \in AskedServices :
        LET versions == getPasswordVersions(serviceName)
        IN  /\ Len(versions) = CountOf(passwords, serviceName)
            /\ \A j \in DOMAIN versions : versions[j].service = serviceName
            /\ \A i \in DOMAIN passwords :
                  passwords[i].service = serviceName =>
                      \E j \in DOMAIN versions : versions[j] = passwords[i]
            /\ \A j, k \in DOMAIN versions :
                  j < k => versions[j].version > versions[k].version

-----------------------------------------------------------------------------
\* The password store with a list that is already there: the lists of up to
\* MaxListLen entries that generation, removal and reloading leave behind
\* (a pair can be there twice: a stored version 0 is read back as 1).  fn
\* keeps the list the store started with.

MaxListLen == 3

ListEntry(service, version) ==
    [service |-> service,
     password |-> generatePasswordFromEntropy(<<1>>, service, version),
     version |-> version,
     credentialId |-> TheCredential.id]

ListEntries ==
    {ListEntry(service, version) : service \in ServiceNames,
                                   version \in VersionInputs}

StoredLists == UNION {[1..n -> ListEntries] : n \in 0..MaxListLen}

InitList ==
    /\ app = "vue"
    /\ webauthnSupported = TRUE
    /\ credentials = <<TheCredential>>
    /\ passwords \in StoredLists
    /\ pwStorage = savePasswords(passwords)
    /\ isGenerating = FALSE
    /\ pwLastError = Null
    /\ waLastError = Null
    /\ auth = initialState
    /\ db = [credentialId |-> Null, username |-> Null]
    /\ initPc = "done"
    /\ calls = [c \in Calls |-> IdleCall]
    /\ started = 0
    /\ NoRegistration
    /\ NoStoreOperation
    /\ fn = [pc |-> "list", initial |-> passwords]

NextList ==
    \/ \E service \in ServiceNames, version \in VersionInputs :
          removePassword(service, version)
    \/ clearPasswords

SpecList == InitList /\ [][NextList]_vars

\* The entry is one of (service, version).
Matches(entry, service, version) ==
    entry.service = service /\ entry.version = version

\* The positions of the list whose entries are not of (service, version).
KeptPositions(list, service, version) ==
    {i \in DOMAIN list : ~Matches(list[i], service, version)}

\* `after` is `before` without its entries of (service, version): it has
\* none of them, and the entry at the i-th kept position of `before` is its
\* i-th entry.
RemovedFrom(before, after, service, version) ==
    LET kept == KeptPositions(before, service, version)
    IN  /\ Len(after) = Cardinality(kept)
        /\ \A i \in kept :
              after[Cardinality({j \in kept : j <= i})] = before[i]
        /\ \A k \in DOMAIN after : ~Matches(after[k], service, version)
        /\ kept = DOMAIN before => after = before

\* C20: removePassword(service, version) removes every entry matching both
\* service and version and leaves all other entries, and their relative
\* order, unchanged; it is a no-op on the list when no entry matches.
C20_RemoveFrame ==
    [][\A service \in ServiceNames, version \in VersionInputs :
          removePassword(service, version) =>
              RemovedFrom(passwords, passwords', service, version)]_vars

\* From a list of three with one pair twice, first and last, and another
\* pair of the same service between them, both entries of the pair are gone
\* and the one between them is what is left.
C20_Witness ==
    /\ fn.pc = "list"
    /\ Len(fn.initial) = MaxListLen
    /\ fn.initial[1] = fn.initial[MaxListLen]
    /\ fn.initial[2] # fn.initial[1]
    /\ fn.initial[2].service = fn.initial[1].service
    /\ passwords = <<fn.initial[2]>>

-----------------------------------------------------------------------------
\* The WebAuthn store of the password toolkit: registration of credentials.

\* What is typed into the name field: "k", " k", "s", " ".
NameInputs == {<<107>>, <<32, 107>>, <<115>>, <<32>>}

\* The ids the authenticator gives to the credentials it creates.
CreatedIds == {"cred-2", "cred-3"}

Regs == 1..MaxRegs

\* The next registerCredential call is the r-th.
FreeReg(r) ==
    /\ regs[r].pc = "idle"
    /\ \A q \in Regs : q < r => regs[q].pc # "idle"

\* registerCredential(name) up to `await navigator.credentials.create`, or
\* to its `return false` without WebAuthn.
registerCredential(r, name) ==
    /\ app = "vue"
    /\ FreeReg(r)
    /\ IF ~webauthnSupported
       THEN /\ waLastError' = "WebAuthn is not supported in this browser"
            /\ regs' = [regs EXCEPT ![r] =
                           [pc |-> "done", name |-> name, response |-> "none",
                            id |-> Null, returned |-> FALSE]]
            /\ UNCHANGED isRegistering
       ELSE /\ isRegistering' = TRUE
            /\ waLastError' = Null
            /\ regs' = [regs EXCEPT ![r] =
                           [pc |-> "awaitCreate", name |-> name,
                            response |-> Null, id |-> Null, returned |-> Null]]
    /\ UNCHANGED <<credentials, credStorage>>
    /\ UNCHANGED <<passwords, pwStorage, isGenerating, pwLastError>>
    /\ UNCHANGED <<calls, started, app, webauthnSupported, fn, authOpVars>>
    /\ UNCHANGED svelteVars

\* A caller of the store other than the component (the store's tests).
StoreRegisterCredential(r, name) ==
    /\ app = "vue"
    /\ registerCredential(r, name)

\* PasswordGenerator.vue: registerYubiKey, by Enter in the name field.
VueRegisterKeyupEnter(r, input) ==
    IF trim(input) = <<>>
    THEN app = "vue" /\ FreeReg(r) /\ UNCHANGED vars
    ELSE registerCredential(r, trim(input))

\* The Register button: disabled while isRegistering or without a name.
VueClickRegister(r, input) ==
    /\ ~isRegistering
    /\ trim(input) # <<>>
    /\ registerCredential(r, trim(input))

\* (variant, for comparison: the credential is put into the list twice)
MutantCreateResolvesPushesTwice(r, id) ==
    /\ app = "vue"
    /\ regs[r].pc = "awaitCreate"
    /\ credentials' = credentials \o <<[id |-> id, name |-> regs[r].name],
                                      [id |-> id, name |-> regs[r].name]>>
    /\ credStorage' = saveCredentials(credentials')
    /\ isRegistering' = FALSE
    /\ regs' = [regs EXCEPT ![r] = [@ EXCEPT !.pc = "done",
                                             !.response = "credential",
                                             !.id = id, !.returned = TRUE]]
    /\ UNCHANGED <<passwords, pwStorage, isGenerating, pwLastError, waLastError>>
    /\ UNCHANGED <<calls, started, app, webauthnSupported, fn, authOpVars>>
    /\ UNCHANGED svelteVars

\* navigator.credentials.create resolves with a credential: it is pushed,
\* the list saved, true returned; then the finally.
CreateResolves(r, id) ==
    /\ app = "vue"
    /\ regs[r].pc = "awaitCreate"
    /\ credentials' = Append(credentials, [id |-> id, name |-> regs[r].name])
    /\ credStorage' = saveCredentials(credentials')
    /\ isRegistering' = FALSE
    /\ regs' = [regs EXCEPT ![r] = [@ EXCEPT !.pc = "done",
                                             !.response = "credential",
                                             !.id = id, !.returned = TRUE]]
    /\ UNCHANGED <<passwords, pwStorage, isGenerating, pwLastError, waLastError>>
    /\ UNCHANGED <<calls, started, app, webauthnSupported, fn, authOpVars>>
    /\ UNCHANGED svelteVars

\* navigator.credentials.create rejects: the catch, the finally, false.
CreateRejects(r) ==
    /\ app = "vue"
    /\ regs[r].pc = "awaitCreate"
    /\ waLastError' = "NotAllowedError"
    /\ isRegistering' = FALSE
    /\ regs' = [regs EXCEPT ![r] = [@ EXCEPT !.pc = "done",
                                             !.response = "rejected",
                                             !.returned = FALSE]]
    /\ UNCHANGED <<credentials, credStorage>>
    /\ UNCHANGED <<passwords, pwStorage, isGenerating, pwLastError>>
    /\ UNCHANGED <<calls, started, app, webauthnSupported, fn, authOpVars>>
    /\ UNCHANGED svelteVars

\* navigator.credentials.create resolves with null: the finally, false.
CreateNull(r) ==
    /\ app = "vue"
    /\ regs[r].pc = "awaitCreate"
    /\ isRegistering' = FALSE
    /\ regs' = [regs EXCEPT ![r] = [@ EXCEPT !.pc = "done",
                                             !.response = "null",
                                             !.returned = FALSE]]
    /\ UNCHANGED <<credentials, credStorage, waLastError>>
    /\ UNCHANGED <<passwords, pwStorage, isGenerating, pwLastError>>
    /\ UNCHANGED <<calls, started, app, webauthnSupported, fn, authOpVars>>
    /\ UNCHANGED svelteVars

removeCredential(credentialId) ==
    /\ app = "vue"
    /\ credentials' = SelectSeq(credentials, LAMBDA cred : cred.id # credentialId)
    /\ credStorage' = saveCredentials(credentials')
    /\ UNCHANGED <<isRegistering, regs, waLastError>>
    /\ UNCHANGED <<passwords, pwStorage, isGenerating, pwLastError>>
    /\ UNCHANGED <<calls, started, app, webauthnSupported, fn, authOpVars>>
    /\ UNCHANGED svelteVars

\* loadCredentials: the saved list, or the empty list of a new store.
loadCredentials(saved) == IF saved = NoItem THEN <<>> ELSE saved[1]

\* The page is loaded again: the store is created anew and reads
\* localStorage; registrations in flight are gone with the old page.
RegisterReload ==
    /\ app = "vue"
    /\ \E r \in Regs : regs[r].pc # "idle"
    /\ credentials' = loadCredentials(credStorage)
    /\ isRegistering' = FALSE
    /\ waLastError' = Null
    /\ regs' = [r \in Regs |->
                   IF regs[r].pc = "awaitCreate"
                   THEN [regs[r] EXCEPT !.pc = "done", !.response = "gone"]
                   ELSE regs[r]]
    /\ UNCHANGED credStorage
    /\ UNCHANGED <<passwords, pwStorage, isGenerating, pwLastError>>
    /\ UNCHANGED <<calls, started, app, webauthnSupported, fn, authOpVars>>
    /\ UNCHANGED svelteVars

InitRegister == Init /\ app = "vue"

NextRegister ==
    \/ \E r \in Regs, input \in NameInputs :
          \/ StoreRegisterCredential(r, trim(input))
          \/ VueRegisterKeyupEnter(r, input)
          \/ VueClickRegister(r, input)
    \/ \E r \in Regs :
          \/ \E id \in CreatedIds : CreateResolves(r, id)
          \/ CreateRejects(r)
          \/ CreateNull(r)
    \/ \E id \in CreatedIds \cup {TheCredential.id} : removeCredential(id)
    \/ RegisterReload

SpecRegister == InitRegister /\ [][NextRegister]_vars

\* The step in which registerCredential call r returns.
Returns(r) ==
    /\ regs[r].pc # "done"
    /\ regs'[r].pc = "done"
    /\ regs'[r].response # "gone"

-----------------------------------------------------------------------------
\* The selection of the codename from a master seed, on its own.

\* Bytes of the master seed (512 bits).
SeedLen == 64

\* The four-byte segments the first twelve bytes are made of.
SeedSegments ==
    {<<0, 0, 0, 1>>, <<0, 0, 1, 2>>, <<128, 0, 0, 7>>, <<255, 255, 255, 254>>}

SeedTails == {0, 9}

\* Offsets at which the second seed differs from the first.
SeedChangeOffsets == {0, 3, 4, 11, 12, 40, 63}

MasterSeedOf(s1, s2, s3, tail) ==
    s1 \o s2 \o s3 \o [i \in 1..(SeedLen - 12) |-> (tail + i) % 256]

ChangedAt(seed, offset) ==
    [seed EXCEPT ![offset + 1] = (@ + 1) % 256]

InitSelect ==
    /\ SystemAtRest
    /\ \E s1 \in SeedSegments, s2 \in SeedSegments, s3 \in SeedSegments,
          tail \in SeedTails, offset \in SeedChangeOffsets :
          fn = [pc |-> "seed",
                seedA |-> MasterSeedOf(s1, s2, s3, tail),
                seedB |-> ChangedAt(MasterSeedOf(s1, s2, s3, tail), offset)]

SelectApply ==
    /\ fn.pc = "seed"
    /\ fn' = [pc |-> "selected", seedA |-> fn.seedA, seedB |-> fn.seedB,
              codenameA |-> SelectCodename(fn.seedA),
              codenameB |-> SelectCodename(fn.seedB)]
    /\ UNCHANGED <<app, webauthnSupported, calls, started, registerVars,
                   authOpVars>>
    /\ UNCHANGED vueVars
    /\ UNCHANGED svelteVars

NextSelect == SelectApply

SpecSelect == InitSelect /\ [][NextSelect]_vars

Selected == fn.pc = "selected"

\* The big-endian unsigned 32-bit value of the four bytes at offsets
\* from .. from + 3 of the seed, mod m; the value itself is beyond the
\* integers at hand, so it is taken as high half * 65536 + low half.
BigEndianMod(seed, from, m) ==
    LET high == seed[from + 1] * 256 + seed[from + 2]
        low == seed[from + 3] * 256 + seed[from + 4]
    IN  ((high % m) * (65536 % m) + low) % m

\* C22: the codename is the concatenation of exactly three dictionary
\* entries, chosen at indices (big-endian unsigned 32-bit value of seed bytes
\* 0..3, 4..7 and 8..11) mod M; every index lies in 0..M-1, and seed bytes
\* 12..63 have no effect on the result.
C22_CodenameSelection ==
    Selected =>
        LET m == Len(masterDictionary)
            index == [k \in 1..3 |-> BigEndianMod(fn.seedA, 4 * (k - 1), m)]
        IN  /\ Len(fn.codenameA.chineseChar) = 3
            /\ \A k \in 1..3 :
                  /\ index[k] \in 0..(m - 1)
                  /\ fn.codenameA.chineseChar[k] = masterDictionary[index[k] + 1].char
                  /\ fn.codenameA.pinyinNote[k] = masterDictionary[index[k] + 1].pinyin
                  /\ fn.codenameA.pinyinNote[3 + k] = masterDictionary[index[k] + 1].tone
            /\ SubSeq(fn.seedA, 1, 12) = SubSeq(fn.seedB, 1, 12)
                  => fn.codenameA = fn.codenameB

\* A seed whose three segments select three different entries, the first
\* with its high bit set, and a second seed that differs from it in its last
\* byte only, have been mapped to the same codename.
C22_Witness ==
    /\ Selected
    /\ fn.seedA[1] >= 128
    /\ Cardinality(Range(fn.codenameA.chineseChar)) = 3
    /\ fn.seedA[SeedLen] # fn.seedB[SeedLen]
    /\ fn.codenameA = fn.codenameB

\* A change within the first twelve bytes can change the codename.
SelectionDependsOnFirstTwelve ==
    /\ Selected
    /\ fn.seedA[12] # fn.seedB[12]
    /\ fn.codenameA # fn.codenameB

-----------------------------------------------------------------------------
\* The date utility: encodeDateXorYear and decodeDateXorYear.

\* new Date().getFullYear() when the page was loaded.
currentYear == 2026

\* a ^ b on non-negative integers.
RECURSIVE BitXor(_, _)
BitXor(a, b) ==
    IF a = 0 THEN b
    ELSE IF b = 0 THEN a
    ELSE (((a % 2) + (b % 2)) % 2) + 2 * BitXor(a \div 2, b \div 2)

IsDigit(ch) == ch \in 48..57

\* parseInt of a string of decimal digits.
RECURSIVE parseInt(_)
parseInt(str) ==
    IF str = <<>> THEN 0
    ELSE parseInt(SubSeq(str, 1, Len(str) - 1)) * 10 + (str[Len(str)] - 48)

\* n.toString().padStart(2, '0')
PadStart2(n) ==
    IF n < 10 THEN <<48>> \o DecimalString(n) ELSE DecimalString(n)

\* str.slice(-n)
SliceLast(str, n) ==
    IF Len(str) <= n THEN str ELSE SubSeq(str, Len(str) - n + 1, Len(str))

Threw == [threw |-> TRUE, value |-> <<>>]

Returned(value) == [threw |-> FALSE, value |-> value]

encodeDateXorYear(dateStr) ==
    LET parts == split(dateStr, 46)
    IN  IF Len(parts) # 3 THEN Threw
        ELSE
        LET dayStr == parts[1]
            monthStr == parts[2]
            yearStr == parts[3]
            twoDigits(s) == Len(s) = 2 /\ \A i \in DOMAIN s : IsDigit(s[i])
        IN  IF ~twoDigits(dayStr) \/ ~twoDigits(monthStr) THEN Threw
            ELSE IF Len(yearStr) \notin {2, 4} THEN Threw
            ELSE
            LET fullYearStr ==
                    IF Len(yearStr) = 2
                    THEN DecimalString((currentYear \div 100) * 100
                                       + parseInt(yearStr))
                    ELSE yearStr
                day == parseInt(dayStr)
                month == parseInt(monthStr)
                yearLastDigit == parseInt(SliceLast(fullYearStr, 1))
                modifiedMonth == BitXor(month, yearLastDigit)
                modifiedDay == BitXor(day, yearLastDigit)
                monthChar == 65 + (modifiedMonth % 12)
                dayIndex == modifiedDay % 31
                dayChar1 == 65 + (dayIndex \div 26)
                dayChar2 == 65 + (dayIndex % 26)
                yearLastTwo == parseInt(SliceLast(fullYearStr, 2))
                yearChar1 == 65 + (yearLastTwo \div 26)
                yearChar2 == 65 + (yearLastTwo % 26)
            IN  IF day < 1 \/ day > 31 \/ month < 1 \/ month > 12 THEN Threw
                ELSE Returned(<<monthChar, dayChar1, dayChar2,
                                yearChar1, yearChar2>>)

decodeDateXorYear(encodedStr, referenceYear) ==
    IF Len(encodedStr) # 5 THEN Threw
    ELSE
    LET encodedMonth == (encodedStr[1] - 65) + 1
        encodedDayIndex == (encodedStr[2] - 65) * 26 + (encodedStr[3] - 65)
        encodedDay == encodedDayIndex + 1
        yearLastTwo == (encodedStr[4] - 65) * 26 + (encodedStr[5] - 65)
        referenceYearLastDigit == referenceYear % 10
        xorMonth == BitXor(encodedMonth, referenceYearLastDigit)
        xorDay == BitXor(encodedDay, referenceYearLastDigit)
        originalMonth == IF xorMonth = 0 THEN 12 ELSE xorMonth
        originalDay == IF xorDay = 0 THEN 31 ELSE xorDay
        century == (referenceYear \div 100) * 100
        fullYear == IF century + yearLastTwo > referenceYear + 50
                    THEN century + yearLastTwo - 100
                    ELSE century + yearLastTwo
        finalMonth == ((originalMonth - 1) % 12) + 1
        finalDay == ((originalDay - 1) % 31) + 1
    IN  Returned(PadStart2(finalDay) \o <<46>> \o PadStart2(finalMonth)
                 \o <<46>> \o DecimalString(fullYear))

\* The valid dates: day 01..31, month 01..12, a four-digit year.
DateYears == {1999, 2020, 2023, 2025}

DateString(day, month, year) ==
    PadStart2(day) \o <<46>> \o PadStart2(month) \o <<46>> \o DecimalString(year)

InitDate ==
    /\ SystemAtRest
    /\ \E day \in 1..31, month \in 1..12, year \in DateYears :
          fn = [pc |-> "date", date |-> DateString(day, month, year),
                year |-> year]

\* encodeDate, then decodeString with the date's year as reference year.
DateApply ==
    /\ fn.pc = "date"
    /\ LET encoded == encodeDateXorYear(fn.date)
       IN  fn' = [pc |-> "decoded", date |-> fn.date, year |-> fn.year,
                  encoded |-> encoded,
                  decoded |-> IF encoded.threw THEN Threw
                              ELSE decodeDateXorYear(encoded.value, fn.year)]
    /\ UNCHANGED <<app, webauthnSupported, calls, started, registerVars,
                   authOpVars>>
    /\ UNCHANGED vueVars
    /\ UNCHANGED svelteVars

NextDate == DateApply

SpecDate == InitDate /\ [][NextDate]_vars

\* C23: the date encoding is reversible: for every valid date d (day
\* 01..31, month 01..12, four-digit year y),
\* decodeDateXorYear(encodeDateXorYear(d), y) returns d.
C23_DateRoundTrip ==
    fn.pc = "decoded" =>
        /\ ~fn.encoded.threw
        /\ ~fn.decoded.threw
        /\ fn.decoded.value = fn.date

\* Every valid date is encoded into five capital letters and decoded into a
\* date of the same form and the same year.
DateEncodingWellFormed ==
    fn.pc = "decoded" =>
        /\ ~fn.encoded.threw
        /\ Len(fn.encoded.value) = 5
        /\ \A i \in 1..5 : fn.encoded.value[i] \in 65..90
        /\ ~fn.decoded.threw
        /\ Len(fn.decoded.value) = Len(fn.date)
        /\ SliceLast(fn.decoded.value, 4) = SliceLast(fn.date, 4)

-----------------------------------------------------------------------------
\* The refill branch of generatePasswordFromEntropy is never entered: the
\* loop makes PasswordLength steps over a hash of HashLen bytes, and the i-th
\* character of every password is read from the i-th byte of the main hash.
RefillNeverEntered ==
    FnDone =>
        /\ Len(fn.passwordA) <= Len(fn.hashA)
        /\ \A i \in DOMAIN fn.passwordA :
              fn.passwordA[i] = allowedChars[CharIndex(fn.hashA[i]) + 1]

-----------------------------------------------------------------------------
\* No (service, version) pair is in the list twice.
UniquePairs(list) ==
    \A i, j \in DOMAIN list :
        i < j => ~(list[i].service = list[j].service
                   /\ list[i].version = list[j].version)

\* The positions of the list that hold the pair of call c.
PositionsOf(list, c) ==
    {i \in DOMAIN list : /\ list[i].service = calls[c].service
                         /\ list[i].version = calls[c].version}

\* A step of generatePassword, removePassword or clearPasswords (any step
\* but a reload of the page) keeps the pairs unique; and a generation that
\* returns the password of a pair in the list puts it where the pair was and
\* leaves the rest of the list as it is.
UniquenessKept ==
    (app = "vue" /\ UniquePairs(passwords) /\ ~VueReload) =>
        /\ UniquePairs(passwords')
        /\ \A c \in DOMAIN calls :
              (ReturnsPassword(c) /\ PositionsOf(passwords, c) # {}) =>
                  /\ Len(passwords') = Len(passwords)
                  /\ \A i \in DOMAIN passwords :
                        IF i \in PositionsOf(passwords, c)
                        THEN passwords'[i].password = calls'[c].result
                        ELSE passwords'[i] = passwords[i]

\* C25: starting from an empty list, after any sequence of generatePassword,
\* removePassword and clearPasswords calls (overlapping generatePassword
\* calls included) the list holds at most one entry per (service, version)
\* pair: regenerating an existing pair replaces its entry in place and does
\* not change the length of the list.
C25_OneEntryPerPair ==
    /\ (app = "vue" /\ started = 0) => passwords = <<>>
    /\ [][UniquenessKept]_vars

\* Two calls have generated the same pair with different passwords, and the
\* list holds one entry.
C25_Witness ==
    /\ app = "vue"
    /\ Succeeded(1) /\ Succeeded(2)
    /\ calls[1].service = calls[2].service
    /\ calls[1].version = calls[2].version
    /\ calls[1].version >= 1
    /\ calls[1].result # calls[2].result
    /\ Len(passwords) = 1
    /\ passwords[1].password \in {calls[1].result, calls[2].result}

-----------------------------------------------------------------------------
\* The password store with a list that is full or nearly so: entries of
\* service "b" with versions 1, 2, 3, ... from the head, the store's
\* list after that many generations.  fn keeps the list the store started
\* with.

\* How many entries the list lacks to be full.
MaxRoom == 2

FilledList(n) == [i \in 1..n |-> ListEntry(<<98>>, i)]

InitFull ==
    /\ app = "vue"
    /\ webauthnSupported = TRUE
    /\ credentials = <<TheCredential>>
    /\ \E room \in 0..MaxRoom : passwords = FilledList(MaxStored - room)
    /\ pwStorage = savePasswords(passwords)
    /\ isGenerating = FALSE
    /\ pwLastError = Null
    /\ waLastError = Null
    /\ auth = initialState
    /\ db = [credentialId |-> Null, username |-> Null]
    /\ initPc = "done"
    /\ calls = [c \in Calls |-> IdleCall]
    /\ started = 0
    /\ NoRegistration
    /\ NoStoreOperation
    /\ fn = [pc |-> "list", initial |-> passwords]

NextFull ==
    \/ \E c \in Calls, service \in ServiceNames, version \in Versions :
          StoreGeneratePassword(c, service, version)
    \/ \E c \in Calls :
          \/ \E signature \in Signatures : VueAuthenticatorResolves(c, signature)
          \/ \E cause \in RejectCauses : VueAuthenticatorRejects(c, cause)
          \/ VueHashResolves(c)

SpecFull == InitFull /\ [][NextFull]_vars

\* A generation that returns leaves at most MaxStored entries, its own
\* among them; when its pair is new to a full list, the new entry is first
\* and the rest is the old list without its last entry.
CutAtTail ==
    \A c \in DOMAIN calls :
        ReturnsPassword(c) =>
            /\ Len(passwords') <= MaxStored
            /\ \E i \in DOMAIN passwords' :
                  /\ passwords'[i].service = calls[c].service
                  /\ passwords'[i].version = calls[c].version
                  /\ passwords'[i].password = calls'[c].result
            /\ (PositionsOf(passwords, c) = {} /\ Len(passwords) = MaxStored) =>
                  /\ passwords'[1].service = calls[c].service
                  /\ passwords'[1].version = calls[c].version
                  /\ passwords'[1].password = calls'[c].result
                  /\ SubSeq(passwords', 2, MaxStored) =
                         SubSeq(passwords, 1, MaxStored - 1)

\* C26: the passwords list never holds more than 100 entries after a
\* generatePassword call completes; when adding a new entry would exceed
\* 100, the entry dropped is the one at the tail of the list and the newly
\* generated entry is retained.
C26_AtMostHundred ==
    /\ Len(passwords) <= MaxStored
    /\ [][CutAtTail]_vars

\* A pair new to a full list has been generated: the list is full, the new
\* entry is first, and the last entry of the list the store started with is
\* gone.
C26_Witness ==
    /\ Len(fn.initial) = MaxStored
    /\ Len(passwords) = MaxStored
    /\ passwords[1].service # <<98>>
    /\ \E c \in DOMAIN calls :
          Succeeded(c) /\ passwords[1].password = calls[c].result
    /\ passwords[MaxStored] = fn.initial[MaxStored - 1]
    /\ \A i \in DOMAIN passwords : passwords[i] # fn.initial[MaxStored]

-----------------------------------------------------------------------------
\* generatePassword call c is suspended at one of its awaits.
Suspended(c) == calls[c].pc \in {"awaitAuth", "awaitHash"}

\* C27: isGenerating is true in every state in which at least one
\* generatePassword call is suspended awaiting the authenticator or the
\* hash, also when several calls overlap, and is false once no call is in
\* progress.
C27_IsGeneratingTracksCalls ==
    app = "vue" => (isGenerating <=> \E c \in DOMAIN calls : Suspended(c))

\* With no call in progress isGenerating is false.
IdleMeansNotGenerating ==
    (app = "vue" /\ \A c \in DOMAIN calls : ~Suspended(c)) => ~isGenerating

-----------------------------------------------------------------------------
\* C28: while a key is registered, App keeps the same Generator instance
\* rendered from the submission of a command until its result is appended:
\* the Generator is rendered in every state in which a submitted command
\* awaits the authenticator or the derivation.  (App renders the loading
\* overlay in place of the component while the store is loading; a
\* Generator rendered afterwards is a new instance with a history of its
\* own.)
C28_GeneratorStaysRendered ==
    app = "svelte" =>
        \A c \in DOMAIN calls :
            (calls[c].pc \in {"awaitAuth", "awaitHash"} /\ auth.isKeyRegistered)
                => GeneratorRendered

\* ------------------------------------------- authStore's own operations

Ops == 1..MaxOps

\* k is the first call slot not yet used since the page was loaded.
FreeOp(k) == ops[k].pc = "idle" /\ \A j \in 1..(k - 1) : ops[j].pc # "idle"

CredentialIds == {"cred-1", "cred-2"}

Usernames == {"user", "n"}

\* The string a typed name spells; the names typed here all trim to "n".
UsernameOf(chars) == IF chars = <<110>> THEN "n" ELSE "nn"

OpDone(o, outcome) == [o EXCEPT !.pc = "done", !.outcome = outcome]

MutantCredentialIdSavedUnregistered(state, id) ==
    [state EXCEPT !.credentialId = id, !.error = Null]

\* setCredentialId: the update after dbService.setCredentialId resolved.
CredentialIdSaved(state, id) ==
    [state EXCEPT !.credentialId = id, !.isKeyRegistered = TRUE,
                  !.error = Null]

\* setUsername: the update after dbService.setUsername resolved.
UsernameSaved(state, username) ==
    [state EXCEPT !.username = username, !.error = Null]

\* The update in the catch block of setCredentialId, setUsername, clearAuth.
StoreFailed(state, message) == [state EXCEPT !.error = message]

\* authStore.setLoading
setLoading(state, loading) == [state EXCEPT !.isLoading = loading]

AuthFrame ==
    /\ UNCHANGED <<initPc, calls, started>>
    /\ UNCHANGED vueVars
    /\ UNCHANGED <<app, webauthnSupported, fn, registerVars>>

\* authStore.setCredentialId(id) up to its await of the database write.
setCredentialId(k, id) ==
    /\ app = "svelte"
    /\ FreeOp(k)
    /\ ops' = [ops EXCEPT ![k] = [pc |-> "awaitPut", op |-> "setCredentialId",
                                  arg |-> id, outcome |-> Null]]
    /\ UNCHANGED <<auth, db, register>>
    /\ AuthFrame

\* authStore.setUsername(username) up to its await of the database write.
setUsername(k, username) ==
    /\ app = "svelte"
    /\ FreeOp(k)
    /\ ops' = [ops EXCEPT ![k] = [pc |-> "awaitPut", op |-> "setUsername",
                                  arg |-> username, outcome |-> Null]]
    /\ UNCHANGED <<auth, db, register>>
    /\ AuthFrame

\* putData resolves: the value is in the database and the store is updated.
PutResolves(k) ==
    /\ ops[k].pc = "awaitPut"
    /\ IF ops[k].op = "setCredentialId"
       THEN /\ db' = [db EXCEPT !.credentialId = ops[k].arg]
            /\ auth' = CredentialIdSaved(auth, ops[k].arg)
       ELSE /\ db' = [db EXCEPT !.username = ops[k].arg]
            /\ auth' = UsernameSaved(auth, ops[k].arg)
    /\ ops' = [ops EXCEPT ![k] = OpDone(@, "resolved")]
    /\ UNCHANGED register
    /\ AuthFrame

\* putData rejects: nothing is written, the catch block sets error.
PutRejects(k) ==
    /\ ops[k].pc = "awaitPut"
    /\ auth' = StoreFailed(auth, IF ops[k].op = "setCredentialId"
                                 THEN "Failed to save credential ID"
                                 ELSE "Failed to save username")
    /\ ops' = [ops EXCEPT ![k] = OpDone(@, "rejected")]
    /\ UNCHANGED <<db, register>>
    /\ AuthFrame

\* authStore.clearAuth() up to its await of deleteCredentialId.
clearAuth(k) ==
    /\ app = "svelte"
    /\ FreeOp(k)
    /\ ops' = [ops EXCEPT ![k] = [pc |-> "awaitDeleteCredentialId",
                                  op |-> "clearAuth", arg |-> Null,
                                  outcome |-> Null]]
    /\ UNCHANGED <<auth, db, register>>
    /\ AuthFrame

\* deleteCredentialId resolves; clearAuth awaits deleteUsername.
DeleteCredentialIdResolves(k) ==
    /\ ops[k].pc = "awaitDeleteCredentialId"
    /\ db' = [db EXCEPT !.credentialId = Null]
    /\ ops' = [ops EXCEPT ![k].pc = "awaitDeleteUsername"]
    /\ UNCHANGED <<auth, register>>
    /\ AuthFrame

\* deleteUsername resolves; clearAuth sets the store to initialState.
DeleteUsernameResolves(k) ==
    /\ ops[k].pc = "awaitDeleteUsername"
    /\ db' = [db EXCEPT !.username = Null]
    /\ auth' = initialState
    /\ ops' = [ops EXCEPT ![k] = OpDone(@, "resolved")]
    /\ UNCHANGED register
    /\ AuthFrame

\* Either delete rejects: the catch block of clearAuth sets error.
DeleteRejects(k) ==
    /\ ops[k].pc \in {"awaitDeleteCredentialId", "awaitDeleteUsername"}
    /\ auth' = StoreFailed(auth, "Failed to clear auth data")
    /\ ops' = [ops EXCEPT ![k] = OpDone(@, "rejected")]
    /\ UNCHANGED <<db, register>>
    /\ AuthFrame

\* ---------------------------------------------- Auth.svelte: handleRegister

\* App.svelte renders Auth when the store is not loading and no key is
\* registered.
AuthRendered == ~auth.isLoading /\ ~auth.isKeyRegistered

MaxUsernameLen == 32

\* "n", " n ", " ", and a name of MaxUsernameLen + 1 characters.
UsernameInputs ==
    {<<110>>, <<32, 110, 32>>, <<32>>,
     [i \in 1..(MaxUsernameLen + 1) |-> 110]}

RegisterEnded(currentError) ==
    [pc |-> "done", username |-> Null, id |-> Null, error |-> currentError]

\* handleRegister up to its await of registerSecurityKey, or to its return
\* when the trimmed name is empty or too long.
handleRegister(input) ==
    /\ app = "svelte"
    /\ AuthRendered
    /\ register.pc \in {"idle", "done"}
    /\ LET trimmedUsername == trim(input) IN
       IF trimmedUsername = <<>>
       THEN /\ register' = RegisterEnded("Username cannot be empty")
            /\ UNCHANGED auth
       ELSE IF Len(trimmedUsername) > MaxUsernameLen
       THEN /\ register' = RegisterEnded("Username is too long")
            /\ UNCHANGED auth
       ELSE /\ register' = [pc |-> "awaitCreate",
                            username |-> UsernameOf(trimmedUsername),
                            id |-> Null, error |-> Null]
            /\ auth' = setLoading(auth, TRUE)
    /\ UNCHANGED <<db, ops>>
    /\ AuthFrame

\* registerSecurityKey resolves with a credential id; handleRegister awaits
\* authStore.setCredentialId.
RegisterKeyResolves(id) ==
    /\ register.pc = "awaitCreate"
    /\ webauthnSupported
    /\ register' = [register EXCEPT !.pc = "awaitSetCredentialId", !.id = id]
    /\ UNCHANGED <<auth, db, ops>>
    /\ AuthFrame

\* registerSecurityKey resolves with null: the else branch, then finally.
RegisterKeyNull ==
    /\ register.pc = "awaitCreate"
    /\ webauthnSupported
    /\ register' = RegisterEnded("No credential returned")
    /\ auth' = setLoading(auth, FALSE)
    /\ UNCHANGED <<db, ops>>
    /\ AuthFrame

\* registerSecurityKey throws (always so without WebAuthn): catch, finally.
RegisterKeyRejects ==
    /\ register.pc = "awaitCreate"
    /\ register' = RegisterEnded("Registration failed")
    /\ auth' = setLoading(auth, FALSE)
    /\ UNCHANGED <<db, ops>>
    /\ AuthFrame

\* The setCredentialId that handleRegister awaits settles; setUsername next.
RegisterCredentialIdSettles(dbOk) ==
    /\ register.pc = "awaitSetCredentialId"
    /\ IF dbOk
       THEN /\ db' = [db EXCEPT !.credentialId = register.id]
            /\ auth' = CredentialIdSaved(auth, register.id)
       ELSE /\ auth' = StoreFailed(auth, "Failed to save credential ID")
            /\ UNCHANGED db
    /\ register' = [register EXCEPT !.pc = "awaitSetUsername"]
    /\ UNCHANGED ops
    /\ AuthFrame

\* The setUsername that handleRegister awaits settles; then finally.
RegisterUsernameSettles(dbOk) ==
    /\ register.pc = "awaitSetUsername"
    /\ IF dbOk
       THEN /\ db' = [db EXCEPT !.username = register.username]
            /\ auth' = setLoading(UsernameSaved(auth, register.username),
                                  FALSE)
       ELSE /\ auth' = setLoading(StoreFailed(auth, "Failed to save username"),
                                  FALSE)
            /\ UNCHANGED db
    /\ register' = RegisterEnded(Null)
    /\ UNCHANGED ops
    /\ AuthFrame

\* The page is loaded again: the store starts from initialState,
\* initializeAuth runs, and what was in flight is gone with the old page.
AuthReload ==
    /\ app = "svelte"
    /\ \/ register.pc # "idle"
       \/ \E k \in Ops : ops[k].pc # "idle"
    /\ auth' = initialState
    /\ initPc' = "pending"
    /\ ops' = [k \in Ops |-> IdleOp]
    /\ register' = IdleRegister
    /\ UNCHANGED <<db, calls, started>>
    /\ UNCHANGED vueVars
    /\ UNCHANGED <<app, webauthnSupported, fn, registerVars>>

InitAuth == Init /\ app = "svelte"

NextAuth ==
    \/ \E dbOk \in BOOLEAN : SvelteInitializeAuth(dbOk)
    \/ \E k \in Ops :
          \/ \E id \in CredentialIds : setCredentialId(k, id)
          \/ \E username \in Usernames : setUsername(k, username)
          \/ clearAuth(k)
          \/ PutResolves(k)
          \/ PutRejects(k)
          \/ DeleteCredentialIdResolves(k)
          \/ DeleteUsernameResolves(k)
          \/ DeleteRejects(k)
    \/ \E input \in UsernameInputs : handleRegister(input)
    \/ \E id \in CredentialIds : RegisterKeyResolves(id)
    \/ RegisterKeyNull
    \/ RegisterKeyRejects
    \/ \E dbOk \in BOOLEAN :
          \/ RegisterCredentialIdSettles(dbOk)
          \/ RegisterUsernameSettles(dbOk)
    \/ AuthReload

SpecAuth == InitAuth /\ [][NextAuth]_vars

\* C29: in every state of the authStore, whatever the interleaving of
\* initializeAuth, setCredentialId, setUsername and clearAuth and whether
\* or not the database writes succeed, isKeyRegistered is true exactly
\* when credentialId is not null.
C29_RegisteredIffCredentialId ==
    app = "svelte" => (auth.isKeyRegistered <=> auth.credentialId # Null)

\* A key is registered by a setCredentialId that was persisted, while
\* another store call on the same page failed to persist.
C29_Witness ==
    /\ app = "svelte"
    /\ auth.isKeyRegistered
    /\ \E k \in Ops : ops[k].op = "setCredentialId" /\ ops[k].outcome = "resolved"
    /\ \E k \in Ops : ops[k].outcome = "rejected"

\* No registration, generation or store operation is in progress.
Quiescent ==
    /\ initPc = "done"
    /\ register.pc \in {"idle", "done"}
    /\ \A k \in Ops : ops[k].pc \in {"idle", "done"}
    /\ \A c \in Calls : calls[c].pc \in {"idle", "done"}

\* C30: whenever no registration, generation or store operation is in
\* progress (after initializeAuth, after handleRegister in any outcome,
\* and after clearAuth), authStore.isLoading is false.
C30_LoadingEndsWhenQuiescent ==
    (app = "svelte" /\ Quiescent) => ~auth.isLoading

\* A clearAuth of this page has set the store to initialState.
Cleared == \E k \in Ops : ops[k].op = "clearAuth" /\ ops[k].outcome = "resolved"

\* isLoading is false at rest on every page on which no clearAuth went
\* through.
LoadingEndsUnlessCleared ==
    (app = "svelte" /\ Quiescent /\ ~Cleared) => ~auth.isLoading

=============================================================================
